---- MODULE Spec2Model ----
(***************************************************************************)
(* Helios: email ingestion (core_py/routes/email_tasks.py), the contact    *)
(* allowlist and the unknown-sender workflow (core_py/routes/contacts.py,  *)
(* core_py/routes/contacts_admin.py).                                      *)
(*                                                                         *)
(* Strings that the code inspects character by character (addresses and    *)
(* domains) are sequences of one-character strings, so that lower(),       *)
(* strip(), split() and the SQL LIKE suffix test are computed, not         *)
(* assumed.  Opaque identifiers (message ids, client ids) are TLA+         *)
(* strings.  The store is modelled as one set of tables, as the data       *)
(* model of the specification describes it.                                *)
(***************************************************************************)
EXTENDS Integers, Sequences, FiniteSets, TLC

VARIABLES
    clients,          \* table clients: set of [id, name, active]
    client_emails,    \* table client_emails: set of [client_id, email]
    client_domains,   \* table client_domains: set of [client_id, domain, wildcard]
    version,          \* allowlist_meta.version of the row id = 1
    unknown_senders,  \* table unknown_senders: sequence of rows
    email_tasks,      \* table email_tasks: sequence of rows
    task_meta,        \* table task_meta: sequence of rows
    processed_emails, \* table processed_emails: sequence of rows
    workers,          \* one in-flight POST /api/tasks/from-email per worker
    hist,             \* per message id: the completed calls, in order of completion
    ncalls,           \* number of ingestion requests received so far
    rec,              \* the in-flight POST /unknown-senders between its two transactions
    observed,         \* per (email, message_id): completed insert-or-bump transactions
    decision,         \* the last allowlist decision taken for a sender
    reader,           \* the in-flight GET /allowlist between its three SELECTs
    responses,        \* the completed GET /allowlist responses
    nreads,           \* number of GET /allowlist requests received so far
    inp,              \* the arguments of plan_week
    sched,            \* plan_week: its position, its locals and the blocks emitted
    cal,              \* the suggestions calendar, as events().list returns it
    reflow,           \* the reflow script: its arguments and its position
    norm,             \* a string, normalised once and normalised again
    cache,            \* allowlist_client: the cache file, the clock, the last result
    sugg,             \* the suggestions calendar under --apply
    sweep,            \* one ingestion sweep over the triage labels
    thread            \* the legacy triage script in per_thread mode

vars == <<clients, client_emails, client_domains, version, unknown_senders,
          email_tasks, task_meta, processed_emails, workers, hist, ncalls,
          rec, observed, decision, reader, responses, nreads,
          inp, sched, cal, reflow, norm, cache, sugg, sweep, thread>>

ingestVars == <<email_tasks, task_meta, processed_emails, workers, hist, ncalls>>
unknownVars == <<unknown_senders, rec, observed>>
contactVars == <<clients, client_emails, client_domains, version>>
readerVars == <<reader, responses, nreads>>
schedVars == <<inp, sched>>
reflowVars == <<cal, reflow>>
auxVars == <<norm, cache, sugg, sweep, thread>>
baseVars == <<contactVars, unknownVars, ingestVars, decision, readerVars, schedVars,
              reflowVars>>
extVars == <<readerVars, schedVars, reflowVars, auxVars>>

(***************************************************************************)
(* Bounds.                                                                 *)
(***************************************************************************)
MaxCalls == 3
MaxHits == 2
MaxVersion == 3
MaxReads == 2
MaxDays == 8
MaxLen == 6
MaxTime == 5

Workers == {1, 2}

None == "None"

(***************************************************************************)
(* Character strings.                                                      *)
(***************************************************************************)
LowerChar(c) ==
    IF c = "J" THEN "j" ELSE IF c = "E" THEN "e" ELSE IF c = "V" THEN "v" ELSE c

\* str.lower(), SQL lower()
Lower(s) == [i \in 1..Len(s) |-> LowerChar(s[i])]

\* str.strip()
Strip(s) ==
    LET idx == {i \in 1..Len(s) : s[i] # " "}
    IN  IF idx = {} THEN <<>>
        ELSE LET lo == CHOOSE i \in idx : \A j \in idx : i <= j
                 hi == CHOOSE i \in idx : \A j \in idx : j <= i
             IN  SubSeq(s, lo, hi)

\* c in s
Contains(s, c) == \E i \in 1..Len(s) : s[i] = c

Count(s, c) == Cardinality({i \in 1..Len(s) : s[i] = c})

FirstIndex(s, c) == CHOOSE i \in 1..Len(s) : s[i] = c /\ \A j \in 1..(i-1) : s[j] # c

LastIndex(s, c) == CHOOSE i \in 1..Len(s) : s[i] = c /\ \A j \in (i+1)..Len(s) : s[j] # c

\* s.split(c, 1)[0]
BeforeFirst(s, c) == IF Contains(s, c) THEN SubSeq(s, 1, FirstIndex(s, c) - 1) ELSE s

\* s.split(c, 1)[1], for s containing c
AfterFirst(s, c) == SubSeq(s, FirstIndex(s, c) + 1, Len(s))

\* s.rsplit(c, 1)[-1] and s.split(c)[-1]
AfterLast(s, c) == IF Contains(s, c) THEN SubSeq(s, LastIndex(s, c) + 1, Len(s)) ELSE s

\* str.endswith(), and the SQL test  s LIKE '%' || t
EndsWith(s, t) == Len(t) <= Len(s) /\ SubSeq(s, Len(s) - Len(t) + 1, Len(s)) = t

(***************************************************************************)
(* The addresses and domains the model draws its inputs from.              *)
(***************************************************************************)
acme_com == <<"a","c","m","e",".","c","o","m">>
example_com == <<"e","x","a","m","p","l","e",".","c","o","m">>
jane_example_com == <<"j","a","n","e","@">> \o example_com
Jane_Example_com == <<"J","a","n","e","@","E","x","a","m","p","l","e",".","c","o","m">>
jane_vip_example_com == <<"j","a","n","e","+","v","i","p","@">> \o example_com
ops_eu_acme_com == <<"o","p","s","@","e","u",".">> \o acme_com
ops_acme_co == <<"o","p","s","@","a","c","m","e",".","c","o">>
ops_acme_com == <<"o","p","s","@">> \o acme_com


(***************************************************************************)
(* Normalisation (core_py/utils/contacts_norm.py) and the allowlist        *)
(* procedure the claims are stated against.                                *)
(***************************************************************************)
\* EMAIL_RE = ^\s*([^@]+)@([^@]+)\s*$ applied to a stripped string
EMAIL_RE_match(a) ==
    Count(a, "@") = 1 /\ FirstIndex(a, "@") > 1 /\ FirstIndex(a, "@") < Len(a)

normalize_email_rsplit(addr) ==
    IF addr = <<>> THEN <<>>
    ELSE LET a == Lower(Strip(addr))
             local == BeforeFirst(a, "@")
         IN  IF ~EMAIL_RE_match(a) THEN a
             ELSE (IF Contains(local, "+") THEN SubSeq(local, 1, LastIndex(local, "+") - 1)
                   ELSE local) \o <<"@">> \o AfterFirst(a, "@")

normalize_email(addr) ==
    IF addr = <<>> THEN <<>>
    ELSE LET a == Lower(Strip(addr))
         IN  IF ~EMAIL_RE_match(a) THEN a
             ELSE BeforeFirst(BeforeFirst(a, "@"), "+") \o <<"@">> \o AfterFirst(a, "@")

normalize_domain(domain) == Lower(Strip(domain))

\* the decision procedure: normalised address is a ClientEmail, or the domain
\* is an exact ClientDomain, or it equals / is a subdomain of a wildcard one
ProcedureAllows(ce, cd, sender) ==
    LET e == normalize_email(sender)
        dom == Lower(AfterLast(e, "@"))
    IN  \/ \E r \in ce : r.email = e
        \/ /\ Contains(e, "@")
           /\ \/ \E r \in cd : ~r.wildcard /\ r.domain = dom
              \/ \E r \in cd : r.wildcard /\ (r.domain = dom \/ EndsWith(dom, <<".">> \o r.domain))

\* the mail the ingestion scenario delivers
Messages ==
    { [id |-> "m1", sender |-> Jane_Example_com],
      [id |-> "m2", sender |-> ops_acme_co] }

MessageIds == {m.id : m \in Messages}

ClientIds == {"c1", "c2"}
ClientNames == {"n1"}

\* the (email, message_id) observations reported to POST /unknown-senders
Pairs == { [email |-> ops_eu_acme_com, message_id |-> "m1"],
           [email |-> ops_eu_acme_com, message_id |-> "m2"] }

AdminEmails == {Jane_Example_com, jane_vip_example_com}
AdminDomains == {acme_com}

(***************************************************************************)
(* Allowlist check of the ingestion endpoint.                              *)
(***************************************************************************)
email_domain(addr) ==
    IF addr = <<>> \/ ~Contains(addr, "@") THEN <<>>
    ELSE Lower(AfterLast(addr, "@"))

\* db_error: the allowlist tables are unavailable (SQLAlchemyError)
is_sender_allowlisted(ce, cd, sender, db_error) ==
    IF db_error THEN FALSE
    ELSE LET email_l == Lower(sender)
             domain_l == email_domain(sender)
         IN  \/ \E r \in ce : Lower(r.email) = email_l
             \/ domain_l # <<>> /\ \E r \in cd : Lower(r.domain) = domain_l

resolve_client_id(ce, cd, sender) ==
    LET email_l == Lower(sender)
        domain_l == email_domain(sender)
        by_email == {r \in ce : Lower(r.email) = email_l}
        by_domain == {r \in cd : Lower(r.domain) = domain_l}
    IN  IF by_email # {} THEN (CHOOSE r \in by_email : TRUE).client_id
        ELSE IF domain_l # <<>> /\ by_domain # {}
             THEN (CHOOSE r \in by_domain : TRUE).client_id
        ELSE None

(***************************************************************************)
(* The session's unit of work: db.add() queues rows, db.commit() flushes   *)
(* them and commits, db.rollback() discards the transaction.               *)
(***************************************************************************)
Tables == [email_tasks |-> email_tasks, task_meta |-> task_meta,
           processed_emails |-> processed_emails]

\* name of the constraint an INSERT would violate, "" if none
UniqueViolation(db, op) ==
    IF op.table = "email_tasks"
    THEN IF \E i \in 1..Len(db.email_tasks) : db.email_tasks[i].id = op.row.id
         THEN "email_tasks_pkey" ELSE ""
    ELSE IF op.table = "task_meta"
    THEN IF \E i \in 1..Len(db.task_meta) : db.task_meta[i].task_id = op.row.task_id
         THEN "task_meta_pkey" ELSE ""
    ELSE IF \E i \in 1..Len(db.processed_emails) :
                db.processed_emails[i].message_id = op.row.message_id
         THEN "ix_processed_emails_message_id" ELSE ""

InsertRow(db, op) ==
    [db EXCEPT ![op.table] = Append(db[op.table], op.row)]

RECURSIVE FlushFrom(_, _, _, _)
\* fail_at = k >= 0: the database fails once k INSERTs of the flush have run
\* (k = Len(ops): at COMMIT); fail_at = -1: no failure
FlushFrom(db, ops, i, fail_at) ==
    IF fail_at = i - 1 THEN [db |-> db, err |-> "db_failure"]
    ELSE IF i > Len(ops) THEN [db |-> db, err |-> ""]
    ELSE LET v == UniqueViolation(db, ops[i])
         IN  IF v # "" THEN [db |-> db, err |-> v]
             ELSE FlushFrom(InsertRow(db, ops[i]), ops, i + 1, fail_at)

db_commit(db, ops, fail_at) == FlushFrom(db, ops, 1, fail_at)

db_rollback_keeps_flushed(before, partial) == partial

\* before: the committed tables; partial: the tables as the failed flush left them
db_rollback(before, partial) == before

(***************************************************************************)
(* POST /api/tasks/from-email, in the steps at which it touches the store. *)
(***************************************************************************)
IdleWorker == [pc |-> "idle", id |-> None, sender |-> <<>>, dry_run |-> FALSE,
               has_meta |-> FALSE, allowed |-> FALSE, raced |-> FALSE, fault |-> FALSE]

InFlight(w) == workers[w].pc # "idle"

EmailTaskOut(task_id, reason) == [helios_task_id |-> task_id, reason |-> reason, status |-> 200]
HTTPException500 == [helios_task_id |-> None, reason |-> "internal_error", status |-> 500]

\* the response reaches the caller: the call is complete
Respond(w, out, fault) ==
    /\ hist' = [hist EXCEPT ![workers[w].id] =
                   Append(@, [allowed |-> workers[w].allowed, dry_run |-> workers[w].dry_run,
                              raced |-> workers[w].raced,
                              fault |-> workers[w].fault \/ fault,
                              reason |-> out.reason, helios_task_id |-> out.helios_task_id,
                              status |-> out.status])]
    /\ workers' = [workers EXCEPT ![w] = IdleWorker]

existing_processed_none(pe, message_id) == {}

\* db.query(ProcessedEmail).filter(message_id == ...).first()
existing_processed(pe, message_id) ==
    {pe[i] : i \in {j \in 1..Len(pe) : pe[j].message_id = message_id}}

\* lines 137-144: dedupe short-circuit, then dry-run short-circuit
create_task_from_email_dedupe(w, m, dry_run, has_meta) ==
    /\ workers[w].pc = "idle"
    /\ ncalls < MaxCalls
    /\ ncalls' = ncalls + 1
    /\ LET existing == existing_processed(processed_emails, m.id)
           overlap == \E o \in Workers \ {w} : InFlight(o) /\ workers[o].id = m.id
           me == [pc |-> "allowlist", id |-> m.id, sender |-> m.sender, dry_run |-> dry_run,
                  has_meta |-> has_meta,
                  allowed |-> is_sender_allowlisted(client_emails, client_domains, m.sender, FALSE),
                  raced |-> overlap, fault |-> FALSE]
           marked == [o \in Workers |->
                        IF o # w /\ InFlight(o) /\ workers[o].id = m.id
                        THEN [workers[o] EXCEPT !.raced = TRUE] ELSE workers[o]]
           done(out) ==
               /\ hist' = [hist EXCEPT ![m.id] =
                              Append(@, [allowed |-> me.allowed, dry_run |-> dry_run,
                                         raced |-> overlap, fault |-> FALSE,
                                         reason |-> out.reason,
                                         helios_task_id |-> out.helios_task_id,
                                         status |-> out.status])]
               /\ workers' = marked
       IN  IF existing # {}
           THEN done(EmailTaskOut((CHOOSE e \in existing : TRUE).helios_task_id, "duplicate"))
           ELSE IF dry_run
           THEN done(EmailTaskOut(None, "dry_run"))
           ELSE /\ workers' = [marked EXCEPT ![w] = me]
                /\ hist' = hist
    /\ UNCHANGED <<contactVars, unknownVars, email_tasks, task_meta, processed_emails,
                   decision, extVars>>

\* line 153: the allowlist check
create_task_from_email_allowlist(w) ==
    /\ workers[w].pc = "allowlist"
    /\ \E db_error \in BOOLEAN :
          LET ok == is_sender_allowlisted(client_emails, client_domains,
                                          workers[w].sender, db_error)
          IN  workers' = [workers EXCEPT ![w].pc = IF ok THEN "create" ELSE "reject",
                                         ![w].fault = @ \/ db_error]
    /\ UNCHANGED <<contactVars, unknownVars, email_tasks, task_meta, processed_emails,
                   hist, ncalls, decision, extVars>>

\* lines 154-166: ledger row for the rejection; any exception is swallowed
create_task_from_email_reject(w) ==
    /\ workers[w].pc = "reject"
    /\ \E fail_at \in {-1, 0, 1} :
          LET ops == << [table |-> "processed_emails",
                         row |-> [message_id |-> workers[w].id, helios_task_id |-> None,
                                  status |-> "rejected_allowlist"]] >>
              r == db_commit(Tables, ops, fail_at)
              db == IF r.err = "" THEN r.db ELSE db_rollback(Tables, r.db)
          IN  /\ processed_emails' = db.processed_emails
              /\ email_tasks' = db.email_tasks
              /\ task_meta' = db.task_meta
              /\ Respond(w, EmailTaskOut(None, "rejected_allowlist"), fail_at # -1)
    /\ UNCHANGED <<contactVars, unknownVars, ncalls, decision, extVars>>

\* the rows of the create transaction, in the order the flush emits them
SessionNew(w, client_id, tasks_first) ==
    LET et == << [table |-> "email_tasks",
                  row |-> [id |-> workers[w].id, client_id |-> client_id,
                           sender |-> workers[w].sender, priority |-> "normal"]] >>
        tm == IF workers[w].has_meta
              THEN << [table |-> "task_meta",
                       row |-> [task_id |-> workers[w].id, source |-> "email"]] >>
              ELSE << >>
        pe == << [table |-> "processed_emails",
                  row |-> [message_id |-> workers[w].id, helios_task_id |-> workers[w].id,
                           status |-> "created"]] >>
    IN  IF tasks_first THEN et \o tm \o pe ELSE pe \o et \o tm

\* lines 213-221: the except clauses
create_error_response(err) ==
    IF err = "ix_processed_emails_message_id" \/ err = "processed_emails_message_id_key"
    THEN EmailTaskOut(None, "duplicate")
    ELSE HTTPException500

\* lines 168-221: EmailTask (+ TaskMeta) + ProcessedEmail in one transaction
create_task_from_email_create(w) ==
    /\ workers[w].pc = "create"
    /\ \E tasks_first \in BOOLEAN, fail_at \in -1..3 :
          LET client_id == resolve_client_id(client_emails, client_domains, workers[w].sender)
              ops == SessionNew(w, client_id, tasks_first)
              r == db_commit(Tables, ops, fail_at)
              db == IF r.err = "" THEN r.db ELSE db_rollback(Tables, r.db)
          IN  /\ fail_at <= Len(ops)
              /\ processed_emails' = db.processed_emails
              /\ email_tasks' = db.email_tasks
              /\ task_meta' = db.task_meta
              /\ IF r.err = ""
                 THEN Respond(w, EmailTaskOut(workers[w].id, "created"), FALSE)
                 ELSE Respond(w, create_error_response(r.err), r.err = "db_failure")
    /\ UNCHANGED <<contactVars, unknownVars, ncalls, decision, extVars>>

(***************************************************************************)
(* contacts_admin.py: add an address or a domain to an existing client.    *)
(***************************************************************************)
ClientExists(cid) == \E c \in clients : c.id = cid


add_client_email(client_id, email) ==
    /\ client_emails' = IF ClientExists(client_id)
                        THEN client_emails \cup {[client_id |-> client_id, email |-> Lower(email)]}
                        ELSE client_emails
    /\ UNCHANGED <<clients, client_domains, version, unknownVars, ingestVars, decision, extVars>>

add_client_domain(client_id, domain, wildcard) ==
    /\ client_domains' = IF ClientExists(client_id)
                         THEN client_domains \cup {[client_id |-> client_id,
                                                    domain |-> Lower(domain),
                                                    wildcard |-> wildcard]}
                         ELSE client_domains
    /\ UNCHANGED <<clients, client_emails, version, unknownVars, ingestVars, decision, extVars>>

\* line 153 of create_task_from_email: the decision taken for one sender on
\* the current tables
allowlist_decision(sender, db_error) ==
    /\ decision' = [sender |-> sender, db_error |-> db_error,
                    emails |-> client_emails, domains |-> client_domains,
                    allowed |-> is_sender_allowlisted(client_emails, client_domains,
                                                      sender, db_error)]
    /\ UNCHANGED <<contactVars, unknownVars, ingestVars, extVars>>

(***************************************************************************)
(* contacts.py on the thread's sqlite connection (db/sqlite_conn.py):      *)
(* statements run inside an implicit transaction that tx() commits, or     *)
(* rolls back when the block raises.                                       *)
(***************************************************************************)
ContactsDb == [clients |-> clients, client_emails |-> client_emails,
               client_domains |-> client_domains, version |-> version,
               unknown_senders |-> unknown_senders]

tx_no_rollback(before, work, failed) == work

\* work: the connection's view when the block ends; failed: the block raised
tx(before, work, failed) == IF failed THEN before ELSE work

Commit(db) ==
    /\ clients' = db.clients
    /\ client_emails' = db.client_emails
    /\ client_domains' = db.client_domains
    /\ version' = db.version
    /\ unknown_senders' = db.unknown_senders

\* INSERT OR IGNORE INTO client_emails, one row per non-empty normalised address
InsertEmails(ce, cid, emails) ==
    ce \cup {[client_id |-> cid, email |-> normalize_email(emails[i])] :
                i \in {j \in 1..Len(emails) : normalize_email(emails[j]) # <<>>}}

\* INSERT OR IGNORE INTO client_domains
InsertDomains(cd, cid, domains) ==
    cd \cup {[client_id |-> cid, domain |-> normalize_domain(domains[i].domain),
              wildcard |-> domains[i].wildcard] : i \in 1..Len(domains)}

\* POST /clients
create_client(name, emails, domains, failed) ==
    /\ \E cid \in ClientIds : ~ClientExists(cid)
    /\ LET cid == CHOOSE c \in ClientIds : ~ClientExists(c)
           conflict == \E c \in clients : c.name = name
           work == [ContactsDb EXCEPT
                      !.clients = @ \cup {[id |-> cid, name |-> name, active |-> TRUE]},
                      !.client_emails = InsertEmails(@, cid, emails),
                      !.client_domains = InsertDomains(@, cid, domains)]
       IN  /\ Commit(tx(ContactsDb, work, conflict \/ failed))
    /\ UNCHANGED <<rec, observed, ingestVars, decision, extVars>>

\* an Optional request field: absent (None) or given with a value
Absent == [given |-> FALSE, value |-> << >>]
Given(v) == [given |-> TRUE, value |-> v]

\* PATCH /clients/{cid}; an absent emails, domains or active leaves the field alone
update_client(cid, emails, domains, active, failed) ==
    /\ LET missing == ~ClientExists(cid)
           keep == {r \in client_emails : r.client_id # cid}
           keepd == {r \in client_domains : r.client_id # cid}
           work == [ContactsDb EXCEPT
                      !.clients = {IF c.id = cid /\ active.given
                                   THEN [c EXCEPT !.active = active.value] ELSE c : c \in @},
                      !.client_emails = IF ~emails.given THEN @
                                        ELSE InsertEmails(keep, cid, emails.value),
                      !.client_domains = IF ~domains.given THEN @
                                         ELSE InsertDomains(keepd, cid, domains.value)]
       IN  /\ Commit(tx(ContactsDb, work, missing \/ failed))
    /\ UNCHANGED <<rec, observed, ingestVars, decision, extVars>>

\* DELETE /clients/{cid}: active = 0, or 404 when no row was updated
soft_delete_client(cid) ==
    /\ LET missing == ~ClientExists(cid)
           work == [ContactsDb EXCEPT
                      !.clients = {IF c.id = cid THEN [c EXCEPT !.active = FALSE] ELSE c :
                                      c \in @}]
       IN  Commit(tx(ContactsDb, work, missing))
    /\ UNCHANGED <<rec, observed, ingestVars, decision, extVars>>

unknown_lookup_by_email(us, e, mid) ==
    {i \in 1..Len(us) : us[i].email = e}

\* SELECT id, hits FROM unknown_senders WHERE email=? AND message_id=?
unknown_lookup(us, e, mid) ==
    {i \in 1..Len(us) : us[i].email = e /\ us[i].message_id = mid}

\* POST /unknown-senders, first transaction: insert or bump
create_unknown_sender_record(p, failed) ==
    /\ observed[p] < MaxHits
    /\ LET e == Lower(Strip(p.email))
           mid == p.message_id
           found == unknown_lookup(unknown_senders, e, mid)
           uid == IF found # {} THEN CHOOSE i \in found : TRUE
                  ELSE Len(unknown_senders) + 1
           work == [ContactsDb EXCEPT
                      !.unknown_senders =
                          IF found # {}
                          THEN [@ EXCEPT ![uid].hits = @ + 1]
                          ELSE Append(@, [id |-> uid, email |-> e, message_id |-> mid,
                                          hits |-> 1, status |-> "pending",
                                          client_id |-> None, resolved |-> FALSE])]
       IN  /\ Commit(tx(ContactsDb, work, failed))
           /\ rec' = IF failed THEN rec ELSE rec \cup {[uid |-> uid, e |-> e]}
           /\ observed' = IF failed THEN observed ELSE [observed EXCEPT ![p] = @ + 1]
    /\ UNCHANGED <<ingestVars, decision, extVars>>

\* the clients the auto-match queries can return for address e
AutoMatch(e) ==
    LET by_email == {r.client_id : r \in {x \in client_emails : Lower(x.email) = e}}
        dom == Lower(AfterFirst(e, "@"))
        by_domain == {r.client_id : r \in {x \in client_domains : Lower(x.domain) = dom}}
        by_wild == {r.client_id :
                       r \in {x \in client_domains :
                                 /\ x.wildcard
                                 /\ \/ EndsWith(dom, <<".">> \o Lower(x.domain))
                                    \/ dom = Lower(x.domain)}}
    IN  IF by_email # {} THEN by_email
        ELSE IF ~Contains(e, "@") THEN {}
        ELSE IF by_domain # {} THEN by_domain
        ELSE by_wild

\* POST /unknown-senders, after the first transaction: auto-match to a client
create_unknown_sender_match(r, failed) ==
    /\ r \in rec
    /\ rec' = rec \ {r}
    /\ LET cands == AutoMatch(r.e)
       IN  IF cands = {}
           THEN /\ Commit(ContactsDb)
           ELSE \E client_id \in cands :
                   LET work == [ContactsDb EXCEPT
                                  !.unknown_senders[r.uid].client_id = client_id,
                                  !.unknown_senders[r.uid].status = "matched"]
                   IN  /\ Commit(tx(ContactsDb, work, failed))
    /\ UNCHANGED <<observed, ingestVars, decision, extVars>>

\* POST /unknown-senders/{uid}/resolve
\* fail_at = k >= 0: the k+1-th statement of the handler raises (the last
\* one is the COMMIT); fail_at = -1: nothing raises
resolve_unknown(uid, action, client_id, wildcard, fail_at) ==
    /\ uid \in 1..Len(unknown_senders)
    /\ LET unk == unknown_senders[uid]
           email == Strip(Lower(unk.email))
           ignored == [ContactsDb EXCEPT !.unknown_senders[uid].resolved = TRUE,
                                         !.unknown_senders[uid].status = "ignored"]
           d1 == IF action = "approve_email"
                 THEN [ContactsDb EXCEPT !.client_emails =
                          @ \cup {[client_id |-> client_id, email |-> email]}]
                 ELSE [ContactsDb EXCEPT !.client_domains =
                          @ \cup {[client_id |-> client_id, domain |-> AfterLast(email, "@"),
                                   wildcard |-> wildcard]}]
           d2 == [d1 EXCEPT !.unknown_senders[uid].resolved = TRUE,
                            !.unknown_senders[uid].status = "resolved",
                            !.unknown_senders[uid].client_id = client_id]
           d3 == [d2 EXCEPT !.version = @ + 1]
       IN  IF action = "ignore"
           THEN /\ fail_at \in {-1, 0, 1}
                /\ Commit(tx(ContactsDb, IF fail_at = 0 THEN ContactsDb ELSE ignored,
                             fail_at # -1))
           ELSE IF client_id = None \/ action \notin {"approve_email", "approve_domain"}
                   \/ ~ClientExists(client_id)
           THEN /\ fail_at = -1
                /\ Commit(ContactsDb)
           ELSE /\ fail_at \in {-1, 1, 2, 3}
                /\ version < MaxVersion
                /\ Commit(tx(ContactsDb,
                             IF fail_at = 1 THEN d1 ELSE IF fail_at = 2 THEN d2 ELSE d3,
                             fail_at # -1))
    /\ UNCHANGED <<rec, observed, ingestVars, decision, extVars>>

(***************************************************************************)
(* GET /allowlist (contacts.py): three SELECTs on the thread's connection, *)
(* outside any transaction; writers on other connections commit between    *)
(* them.                                                                   *)
(***************************************************************************)
\* SELECT email FROM client_emails ORDER BY email: the addresses with the
\* number of rows holding each
EmailsList(ce) ==
    {<<e, Cardinality({r \in ce : r.email = e})>> : e \in {r.email : r \in ce}}

\* SELECT domain, wildcard FROM client_domains ORDER BY domain
DomainsList(cd) ==
    {<<d, Cardinality({r \in cd : r.domain = d.domain /\ r.wildcard = d.wildcard})>> :
        d \in {[domain |-> r.domain, wildcard |-> r.wildcard] : r \in cd}}

\* the committed allowlist at this instant
Snapshot == [version |-> version, emails |-> EmailsList(client_emails),
             domains |-> DomainsList(client_domains)]

\* the committed allowlists a read has passed through
Instants(at) == {at[k] : k \in 1..Len(at)}

IdleReader == [pc |-> "idle", version |-> 0, emails |-> {}, at |-> << >>]

\* SELECT version FROM allowlist_meta, and the ifNoneMatch short cut; the etag
\* W/"v" is written v, and ifNoneMatch = 0 is a request without the parameter
get_allowlist_meta(ifNoneMatch) ==
    /\ reader.pc = "idle"
    /\ nreads < MaxReads
    /\ nreads' = nreads + 1
    /\ IF ifNoneMatch # 0 /\ ifNoneMatch = version
       THEN /\ responses' = responses \cup
                   {[not_modified |-> TRUE, version |-> version, emails |-> {},
                     domains |-> {}, consistent |-> TRUE]}
            /\ UNCHANGED reader
       ELSE /\ reader' = [pc |-> "emails", version |-> version, emails |-> {},
                          at |-> <<Snapshot>>]
            /\ UNCHANGED responses
    /\ UNCHANGED <<contactVars, unknownVars, ingestVars, decision, schedVars, reflowVars, auxVars>>

\* SELECT email FROM client_emails
get_allowlist_emails ==
    /\ reader.pc = "emails"
    /\ reader' = [reader EXCEPT !.pc = "domains", !.emails = EmailsList(client_emails),
                                !.at = Append(@, Snapshot)]
    /\ UNCHANGED <<contactVars, unknownVars, ingestVars, decision, responses, nreads, schedVars, reflowVars, auxVars>>

\* SELECT domain, wildcard FROM client_domains, and the response
get_allowlist_domains ==
    /\ reader.pc = "domains"
    /\ LET body == [version |-> reader.version, emails |-> reader.emails,
                    domains |-> DomainsList(client_domains)]
       IN  responses' = responses \cup
               {[not_modified |-> FALSE, version |-> body.version, emails |-> body.emails,
                 domains |-> body.domains,
                 consistent |-> body \in Instants(Append(reader.at, Snapshot))]}
    /\ reader' = IdleReader
    /\ UNCHANGED <<contactVars, unknownVars, ingestVars, decision, nreads, schedVars, reflowVars, auxVars>>

(***************************************************************************)
(* The block scheduler (core_py/scheduler/helios_block_scheduler.py).      *)
(* Times are minutes since midnight of the day they belong to; an Optional *)
(* interval is a sequence of length 0 or 1.  A task's priority or due date *)
(* 0 stands for an absent one: the code reads both through "x or default". *)
(***************************************************************************)
BlockType == <<"client_deep_work", "systems_development", "marketing_creative",
               "admin_processing", "personal">>

Buckets == {BlockType[k] : k \in 1..Len(BlockType)}

Min(a, b) == IF a <= b THEN a ELSE b
Max(a, b) == IF a >= b THEN a ELSE b

Interval(s, e) == [start |-> s, end |-> e]

\* Interval.minutes
minutes(iv) == iv.end - iv.start

split_keep_rest(iv, m) ==
    LET take == Min(minutes(iv), m)
        first == Interval(iv.start, iv.start + take)
    IN  [first |-> first, rest |-> <<iv>>]

\* Interval.split
split(iv, m) ==
    LET take == Min(minutes(iv), m)
        first == Interval(iv.start, iv.start + take)
    IN  [first |-> first,
         rest |-> IF iv.end > first.end THEN <<Interval(first.end, iv.end)>> ELSE << >>]

\* sorted(.., key=lambda x: x.start): stable insertion by start
RECURSIVE InsertByStart(_, _)
InsertByStart(s, x) ==
    IF s = << >> THEN <<x>>
    ELSE IF Head(s).start <= x.start THEN <<Head(s)>> \o InsertByStart(Tail(s), x)
    ELSE <<x>> \o s

RECURSIVE SortByStart(_)
SortByStart(s) ==
    IF s = << >> THEN << >>
    ELSE InsertByStart(SortByStart(SubSeq(s, 1, Len(s) - 1)), s[Len(s)])

\* one pass of subtract_busy's inner loop: the pieces left around busy b
RECURSIVE CutPieces(_, _)
CutPieces(pieces, b) ==
    IF pieces = << >> THEN << >>
    ELSE LET p == Head(pieces)
             out == IF b.end <= p.start \/ b.start >= p.end THEN <<p>>
                    ELSE (IF b.start > p.start THEN <<Interval(p.start, b.start)>> ELSE << >>)
                         \o (IF b.end < p.end THEN <<Interval(b.end, p.end)>> ELSE << >>)
         IN  SelectSeq(out, LAMBDA x : x.end > x.start) \o CutPieces(Tail(pieces), b)

RECURSIVE SubtractEach(_, _)
SubtractEach(pieces, busies) ==
    IF busies = << >> THEN pieces
    ELSE SubtractEach(CutPieces(pieces, Head(busies)), Tail(busies))

subtract_busy_none(free, busies) == <<free>>

subtract_busy(free, busies) == SubtractEach(<<free>>, SortByStart(busies))

bucket_for_time(t) ==
    IF t < 660 THEN (IF t < 630 THEN "morning" ELSE "mid_morning")
    ELSE IF t < 870 THEN "early_afternoon"
    ELSE IF t < 990 THEN "afternoon"
    ELSE "late_afternoon"

\* day.weekday() of day i of the window: 0 = Monday .. 6 = Sunday
Weekday(i) == (inp.start_weekday + i) % 7

p_spans(wd) == inp.cfg.personal_windows[wd]

in_personal_window(wd, iv) ==
    LET spans == p_spans(wd)
    IN  IF spans = << >> THEN TRUE
        ELSE \E k \in 1..Len(spans) : iv.start >= spans[k][1] /\ iv.end <= spans[k][2]

\* t.priority or 99, t.due or dtmax_utc
dtmax_utc == 999999

sort_key_due_first(t) == <<IF t.due = 0 THEN dtmax_utc ELSE t.due,
                           IF t.priority = 0 THEN 99 ELSE t.priority>>

sort_key(t) == <<IF t.priority = 0 THEN 99 ELSE t.priority,
                 IF t.due = 0 THEN dtmax_utc ELSE t.due>>

KeyLe(a, b) == a[1] < b[1] \/ (a[1] = b[1] /\ a[2] <= b[2])

\* sorted(tasks, key=...): the positions of ts in stable key order
RECURSIVE InsertIdx(_, _, _)
InsertIdx(ts, s, k) ==
    IF s = << >> THEN <<k>>
    ELSE IF KeyLe(sort_key(ts[Head(s)]), sort_key(ts[k]))
         THEN <<Head(s)>> \o InsertIdx(ts, Tail(s), k)
    ELSE <<k>> \o s

RECURSIVE SortedIdx(_, _)
SortedIdx(ts, n) == IF n = 0 THEN << >> ELSE InsertIdx(ts, SortedIdx(ts, n - 1), n)

InSeq(x, s) == \E k \in 1..Len(s) : s[k] = x

\* compute_demand
RECURSIVE SumRemaining(_)
SumRemaining(ts) ==
    IF ts = << >> THEN 0 ELSE Max(0, Head(ts).remaining_minutes) + SumRemaining(Tail(ts))

compute_demand(tasks_grouped) == [bt \in Buckets |-> SumRemaining(tasks_grouped[bt])]

\* ceil(weekly_weights[bt] * max(1.0, num_days / 7.0))
scaled_weekly(bt) ==
    IF inp.num_days <= 7 THEN inp.cfg.weekly_weights[bt]
    ELSE (inp.cfg.weekly_weights[bt] * inp.num_days + 6) \div 7

\* cfg.hard.cap_blocks_per_day.get(bt, 99)
cap_of(bt) ==
    IF bt \in DOMAIN inp.cfg.hard.cap_blocks_per_day
    THEN inp.cfg.hard.cap_blocks_per_day[bt] ELSE 99

cap_reached_never(bt) == FALSE

\* can_place, the daily cap
cap_reached(bt) == sched.cap_today[bt] >= cap_of(bt)

systems_too_short_never(bt, mins) == FALSE

\* can_place, the contiguity rule of systems_development
systems_too_short(bt, mins) ==
    bt = "systems_development" /\ mins < inp.cfg.hard.min_contiguous_minutes_for_systems

\* can_place, a closure over the day and its cap counters
can_place(bt, interval, mins) ==
    IF cap_reached(bt) THEN FALSE
    ELSE IF systems_too_short(bt, mins) THEN FALSE
    ELSE LET bucket == bucket_for_time(interval.start)
             rule == inp.cfg.rules[bt]
         IN  IF bt = "personal"
             THEN "personal_window" \in rule.placements
                  /\ in_personal_window(Weekday(sched.i), interval)
             ELSE bucket \in rule.placements \/ "gaps" \in rule.placements

\* the loop of allocate over the sorted tasks
RECURSIVE Drain(_, _, _, _)
Drain(order, remaining, ts, ids) ==
    IF order = << >> \/ remaining <= 0 THEN [tasks |-> ts, task_ids |-> ids]
    ELSE LET k == Head(order)
             t == ts[k]
             use == Min(remaining, t.remaining_minutes)
         IN  IF t.remaining_minutes <= 0 THEN Drain(Tail(order), remaining, ts, ids)
             ELSE Drain(Tail(order), remaining - use,
                        [ts EXCEPT ![k].remaining_minutes = @ - use],
                        IF InSeq(t.id, ids) THEN ids ELSE Append(ids, t.id))

allocate_keep_tasks(bt, iv, mins) ==
    LET ts == sched.tasks[bt]
        sp == split(iv, mins)
        d == Drain(SortedIdx(ts, Len(ts)), minutes(sp.first), ts, << >>)
    IN  IF ts = << >> \/ d.task_ids = << >>
        THEN [ev |-> << >>, rest |-> <<iv>>, tasks |-> ts]
        ELSE [ev |-> <<[day |-> sched.i, start |-> sp.first.start, end |-> sp.first.end,
                        block_type |-> bt, task_ids |-> d.task_ids]>>,
              rest |-> sp.rest, tasks |-> ts]

\* allocate: the event (or none), the rest of the interval, the drained tasks
allocate(bt, iv, mins) ==
    LET ts == sched.tasks[bt]
        sp == split(iv, mins)
        d == Drain(SortedIdx(ts, Len(ts)), minutes(sp.first), ts, << >>)
    IN  IF ts = << >> \/ d.task_ids = << >>
        THEN [ev |-> << >>, rest |-> <<iv>>, tasks |-> ts]
        ELSE [ev |-> <<[day |-> sched.i, start |-> sp.first.start, end |-> sp.first.end,
                        block_type |-> bt, task_ids |-> d.task_ids]>>,
              rest |-> sp.rest, tasks |-> d.tasks]

prefer_list_with_personal(bucket) ==
    <<"personal", "client_deep_work", "systems_development", "admin_processing">>

prefer_list_for_bucket(bucket) ==
    IF bucket \in {"morning", "mid_morning"}
    THEN <<"client_deep_work", "systems_development", "admin_processing">>
    ELSE IF bucket \in {"early_afternoon", "afternoon"}
    THEN <<"marketing_creative", "client_deep_work", "admin_processing">>
    ELSE <<"admin_processing", "client_deep_work">>

\* min(duration_max, max(duration_min, cursor minutes)) cut to the cursor
block_minutes(bt, cursor) ==
    LET rule == inp.cfg.rules[bt]
    IN  Min(Min(rule.duration_max, Max(rule.duration_min, minutes(cursor))), minutes(cursor))

\* the for loop over prefs: the first bucket that places, with its allocation
RECURSIVE try_prefs(_, _)
try_prefs(prefs, cursor) ==
    IF prefs = << >> THEN [placed |-> FALSE]
    ELSE LET bt == Head(prefs)
             rule == inp.cfg.rules[bt]
             candidate == Min(Max(Min(rule.duration_max, minutes(cursor)), rule.duration_min),
                              minutes(cursor))
             skip == \/ sched.scheduled_counts[bt] >= scaled_weekly(bt)
                     \/ candidate < rule.duration_min
                     \/ sched.demand[bt] <= 0
                     \/ ~can_place(bt, cursor, candidate)
         IN  IF skip \/ allocate(bt, cursor, candidate).ev = << >>
             THEN try_prefs(Tail(prefs), cursor)
             ELSE [placed |-> TRUE, bt |-> bt, a |-> allocate(bt, cursor, candidate)]

\* the gap filler: admin_processing when it has demand and can be placed
gap_filler(cursor) ==
    LET bt == "admin_processing"
        mins == block_minutes(bt, cursor)
    IN  IF minutes(cursor) >= 30 /\ sched.demand[bt] > 0 /\ can_place(bt, cursor, mins)
           /\ allocate(bt, cursor, mins).ev # << >>
        THEN [placed |-> TRUE, bt |-> bt, a |-> allocate(bt, cursor, mins)]
        ELSE [placed |-> FALSE]

\* the effects of a successful allocate and of day_blocks.append(ev)
Placed(bt, a, path) ==
    [sched EXCEPT !.tasks[bt] = a.tasks,
                  !.cap_today[bt] = @ + 1,
                  !.scheduled_counts[bt] = @ + 1,
                  !.demand[bt] = Max(0, @ - minutes(a.ev[1])),
                  !.blocks = Append(@, a.ev[1]),
                  !.paths = Append(@, path),
                  !.queue = a.rest \o Tail(@)]

is_weekday_or_saturday(wd) == wd < 6

\* day.weekday() < 5
is_weekday(wd) == wd < 5

clamp(s, e) == Interval(s, e)

RECURSIVE FreeOfSpans(_, _)
FreeOfSpans(spans, fixed) ==
    IF spans = << >> THEN << >>
    ELSE subtract_busy(clamp(Head(spans)[1], Head(spans)[2]), fixed)
         \o FreeOfSpans(Tail(spans), fixed)

\* the free parts of the personal windows of weekday wd
personal_free(wd, fixed) == SortByStart(FreeOfSpans(p_spans(wd), fixed))

Zero == [bt \in Buckets |-> 0]

IdleSched == [pc |-> "idle", run |-> 0, i |-> 0, queue |-> << >>, cap_today |-> Zero,
              scheduled_counts |-> Zero, demand |-> Zero,
              tasks |-> [bt \in Buckets |-> << >>],
              blocks |-> << >>, paths |-> << >>, first |-> << >>]

\* plan_week up to its loop over the days: fresh counters, the caller's tasks
plan_week_begin(run, first) ==
    [pc |-> "day", run |-> run, i |-> 0, queue |-> << >>, cap_today |-> Zero,
     scheduled_counts |-> Zero, demand |-> compute_demand(inp.tasks),
     tasks |-> inp.tasks, blocks |-> << >>, paths |-> << >>, first |-> first]

storeVars == <<contactVars, unknownVars, ingestVars, decision, readerVars, auxVars>>

\* the head of the loop over the days: the fixed events, work_free, cap_today
plan_week_day ==
    /\ sched.pc = "day"
    /\ sched' = IF sched.i >= inp.num_days THEN [sched EXCEPT !.pc = "done"]
                ELSE [sched EXCEPT
                        !.pc = "work",
                        !.cap_today = Zero,
                        !.queue = IF is_weekday(Weekday(sched.i))
                                  THEN SortByStart(subtract_busy(
                                           clamp(inp.cfg.core_start, inp.cfg.core_end),
                                           inp.fixed))
                                  ELSE << >>]
    /\ UNCHANGED <<storeVars, reflowVars, inp>>

\* one turn of the work placement: the next free interval, or one pass of
\* the while loop on the cursor
plan_week_work ==
    /\ sched.pc = "work"
    /\ sched.queue # << >>
    /\ LET cursor == Head(sched.queue)
           p == try_prefs(prefer_list_for_bucket(bucket_for_time(cursor.start)), cursor)
           g == gap_filler(cursor)
       IN  sched' = IF minutes(cursor) < 30 THEN [sched EXCEPT !.queue = Tail(@)]
                    ELSE IF p.placed THEN Placed(p.bt, p.a, "prefs")
                    ELSE IF g.placed THEN Placed(g.bt, g.a, "gap")
                    ELSE [sched EXCEPT !.queue = Tail(@)]
    /\ UNCHANGED <<storeVars, reflowVars, inp>>

\* the work placement is over: personal_free of the day
plan_week_personal_free ==
    /\ sched.pc = "work"
    /\ sched.queue = << >>
    /\ sched' = [sched EXCEPT
                   !.pc = "personal",
                   !.queue = IF p_spans(Weekday(sched.i)) # << >> /\ sched.demand["personal"] > 0
                             THEN personal_free(Weekday(sched.i), inp.fixed)
                             ELSE << >>]
    /\ UNCHANGED <<storeVars, reflowVars, inp>>

\* one turn of the personal placement
plan_week_personal ==
    /\ sched.pc = "personal"
    /\ sched.queue # << >>
    /\ LET cursor == Head(sched.queue)
           bt == "personal"
           mins == block_minutes(bt, cursor)
           stop == \/ minutes(cursor) < inp.cfg.rules[bt].duration_min
                   \/ sched.scheduled_counts[bt] >= scaled_weekly(bt)
                   \/ sched.demand[bt] <= 0
                   \/ ~can_place(bt, cursor, mins)
                   \/ allocate(bt, cursor, mins).ev = << >>
       IN  sched' = IF stop THEN [sched EXCEPT !.queue = Tail(@)]
                    ELSE Placed(bt, allocate(bt, cursor, mins), "personal")
    /\ UNCHANGED <<storeVars, reflowVars, inp>>

\* days.append(PlanDay(...)), and return Plan(days) after the last day
plan_week_day_end ==
    /\ sched.pc = "personal"
    /\ sched.queue = << >>
    /\ sched' = [sched EXCEPT !.pc = "day", !.i = @ + 1]
    /\ UNCHANGED <<storeVars, reflowVars, inp>>

\* a second invocation with equal inputs
plan_week_again ==
    /\ sched.pc = "done"
    /\ sched.run = 1
    /\ sched' = plan_week_begin(2, sched.blocks)
    /\ UNCHANGED <<storeVars, reflowVars, inp>>

\* load_config on DEFAULT_YAML
DefaultWindows ==
    [wd \in 0..6 |-> IF wd < 5 THEN << <<420, 510>>, <<750, 810>>, <<1050, 1200>> >>
                     ELSE IF wd = 5 THEN << <<480, 720>>, <<960, 1200>> >>
                     ELSE << <<540, 720>>, <<960, 1140>> >>]

DefaultConfig ==
    [core_start |-> 540, core_end |-> 1080,
     weekly_weights |-> [bt \in Buckets |->
         CASE bt = "client_deep_work" -> 7 [] bt = "systems_development" -> 3
           [] bt = "marketing_creative" -> 2 [] bt = "admin_processing" -> 5
           [] OTHER -> 4],
     rules |-> [bt \in Buckets |->
         CASE bt = "client_deep_work" ->
                  [duration_min |-> 90, duration_max |-> 120, placements |-> {"morning"}]
           [] bt = "systems_development" ->
                  [duration_min |-> 120, duration_max |-> 180,
                   placements |-> {"mid_morning", "early_afternoon"}]
           [] bt = "marketing_creative" ->
                  [duration_min |-> 60, duration_max |-> 90, placements |-> {"afternoon"}]
           [] bt = "admin_processing" ->
                  [duration_min |-> 30, duration_max |-> 60,
                   placements |-> {"late_afternoon", "gaps"}]
           [] OTHER ->
                  [duration_min |-> 30, duration_max |-> 90,
                   placements |-> {"personal_window"}]],
     hard |-> [min_contiguous_minutes_for_systems |-> 120,
               cap_blocks_per_day |-> [bt \in {"systems_development", "admin_processing",
                                               "personal"} |->
                   IF bt = "systems_development" THEN 1 ELSE 2]],
     personal_windows |-> DefaultWindows]

\* a block_rules.yaml with shorter systems blocks, small weights, a personal
\* cap of one and no personal window on Saturdays
ShortSystemsConfig ==
    [DefaultConfig EXCEPT
        !.rules["systems_development"].duration_min = 60,
        !.weekly_weights = [bt \in Buckets |-> IF bt = "systems_development" THEN 2 ELSE 1],
        !.hard.cap_blocks_per_day["personal"] = 1,
        !.personal_windows[5] = << >>]

\* SchedulerConfig() without yaml: no personal windows
DataclassConfig == [DefaultConfig EXCEPT !.personal_windows = [wd \in 0..6 |-> << >>]]

\* a block_rules.yaml whose durations for admin_processing are [0, 0] and
\* for personal [0, 45]
ZeroDurationConfig ==
    [DefaultConfig EXCEPT
        !.rules["admin_processing"].duration_min = 0,
        !.rules["admin_processing"].duration_max = 0,
        !.rules["personal"].duration_min = 0,
        !.rules["personal"].duration_max = 45]

Configs == {DefaultConfig, ShortSystemsConfig, DataclassConfig, ZeroDurationConfig}

\* the busy intervals the fixed-events fetcher returns for a day
FixedEvents ==
    { << >>,
      << Interval(900, 960), Interval(600, 630) >>,
      << Interval(540, 630), Interval(720, 1080) >> }

Task(id, priority, due, remaining_minutes) ==
    [id |-> id, priority |-> priority, due |-> due, remaining_minutes |-> remaining_minutes]

NoTasks == [bt \in Buckets |-> << >>]

TaskSets ==
    { NoTasks,
      [NoTasks EXCEPT !["admin_processing"] = << Task("A1", 0, 0, 900) >>],
      [NoTasks EXCEPT !["personal"] = << Task("P1", 0, 0, 900) >>,
                      !["client_deep_work"] = << Task("C1", 1, 0, 900) >>],
      [bt \in Buckets |->
         CASE bt = "client_deep_work" ->
                  << Task("C1", 2, 5, 100), Task("C2", 1, 9, 50), Task("C3", 1, 3, 40),
                     Task("C4", 0, 1, 300) >>
           [] bt = "systems_development" -> << Task("S1", 1, 0, 400) >>
           [] bt = "marketing_creative" -> << Task("M1", 0, 0, 120) >>
           [] bt = "admin_processing" -> << Task("A1", 3, 0, 45), Task("A2", 3, 0, 200) >>
           [] OTHER -> << Task("P1", 0, 7, 200), Task("P2", 1, 0, 30) >>],
      [NoTasks EXCEPT !["admin_processing"] = << Task("A0", 1, 0, 0) >>,
                      !["client_deep_work"] = << Task("C1", 1, 0, 200) >>,
                      !["personal"] = << Task("P0", 1, 0, 0), Task("P1", 2, 0, 100),
                                         Task("P2", 3, 0, 0) >>] }

StartWeekdays == {0, 5}

NoInput == [start_weekday |-> 0, num_days |-> 0, cfg |-> DefaultConfig,
            fixed |-> << >>, tasks |-> NoTasks]

(***************************************************************************)
(* The reflow controller (core_py/scripts/helios_reflow_noe.py).  The      *)
(* calendar is the list events().list returns; helios_task_ids is the      *)
(* comma-joined string, one identifier or one "," per element.             *)
(***************************************************************************)
str_true == <<"t", "r", "u", "e">>

\* ",".join(ev.task_ids), as to_gcal_event and main write it
JoinIds(ids) ==
    IF ids = << >> THEN << >>
    ELSE [k \in 1..(2 * Len(ids) - 1) |-> IF k % 2 = 1 THEN ids[(k + 1) \div 2] ELSE ","]

SplitIds_none(s) == {}

\* set([x for x in old_ids_str.split(",") if x])
SplitIds(s) == {s[k] : k \in {j \in 1..Len(s) : s[j] # ","}}

\* _mins
mins(d1, d2) == d2 - d1

\* (d.get("priority") or 99, _due_val(d))
reflow_sort_key(d) == <<IF d.priority = 0 THEN 99 ELSE d.priority, d.due_date>>

\* candidates.sort(key=...): the positions of the candidates in stable key order
RECURSIVE CandInsertIdx(_, _, _)
CandInsertIdx(ts, s, k) ==
    IF s = << >> THEN <<k>>
    ELSE IF KeyLe(reflow_sort_key(ts[Head(s)]), reflow_sort_key(ts[k]))
         THEN <<Head(s)>> \o CandInsertIdx(ts, Tail(s), k)
    ELSE <<k>> \o s

RECURSIVE CandSortedIdx(_, _)
CandSortedIdx(ts, n) ==
    IF n = 0 THEN << >> ELSE CandInsertIdx(ts, CandSortedIdx(ts, n - 1), n)

\* the loop of _pick_next_tasks over the sorted candidates
RECURSIVE PickLoop(_, _, _, _, _, _)
PickLoop(order, ts, remaining, exclude_ids, per_task_cap, picked_ids) ==
    IF order = << >> THEN picked_ids
    ELSE LET t == ts[Head(order)]
             take0 == Min(t.remaining_minutes, remaining)
             take == IF per_task_cap > 0 THEN Min(take0, per_task_cap) ELSE take0
         IN  IF t.id = "" \/ t.id \in exclude_ids \/ t.remaining_minutes <= 0 \/ take <= 0
             THEN PickLoop(Tail(order), ts, remaining, exclude_ids, per_task_cap, picked_ids)
             ELSE IF remaining - take <= 0 THEN Append(picked_ids, t.id)
             ELSE PickLoop(Tail(order), ts, remaining - take, exclude_ids, per_task_cap,
                           Append(picked_ids, t.id))

\* _pick_next_tasks on the grouped tasks the task source returns
pick_next_tasks(bucket_key, minutes_needed, exclude_ids, per_task_cap) ==
    LET candidates == IF bucket_key \in DOMAIN reflow.grouped
                      THEN reflow.grouped[bucket_key] ELSE << >>
    IN  PickLoop(CandSortedIdx(candidates, Len(candidates)), candidates,
                 Max(0, minutes_needed), exclude_ids, per_task_cap, << >>)

current_event_any(events, now) ==
    {k \in 1..Len(events) : events[k].start <= now /\ now < events[k].end}

\* the loop of main over the listed events: those it would take as current
current_event(events, now) ==
    {k \in 1..Len(events) :
        /\ events[k].start <= now /\ now < events[k].end
        /\ Lower(events[k].helios_generated) = str_true}

\* main: one run of the script
reflow_main ==
    /\ reflow.pc = "start"
    /\ reflow' = [reflow EXCEPT !.pc = "done", !.before = cal]
    /\ LET found == current_event(cal, reflow.now)
           k == CHOOSE i \in found : \A j \in found : i <= j
           current == cal[k]
           left_mins == mins(reflow.now, current.end)
           bucket_key == current.helios_block_type
           already_ids == SplitIds(current.helios_task_ids)
           new_ids == pick_next_tasks(bucket_key, left_mins, already_ids,
                                      Max(0, reflow.per_task_cap))
           new_body == [id |-> "new", start |-> reflow.now, end |-> current.end,
                        helios_generated |-> str_true, helios_block_type |-> bucket_key,
                        helios_task_ids |-> JoinIds(new_ids),
                        helios_idem |-> <<"reflow", bucket_key, reflow.now>>]
       IN  cal' = IF found = {} THEN cal
                  ELSE IF left_mins < reflow.min_chunk THEN cal
                  ELSE IF bucket_key = "" THEN cal
                  ELSE IF new_ids = << >> THEN cal
                  ELSE IF reflow.dry_run THEN cal
                  ELSE Append([cal EXCEPT ![k].end = reflow.now], new_body)
    /\ UNCHANGED <<storeVars, schedVars>>

GcalEvent(id, start, end, generated, bt, ids) ==
    [id |-> id, start |-> start, end |-> end, helios_generated |-> generated,
     helios_block_type |-> bt, helios_task_ids |-> JoinIds(ids),
     helios_idem |-> <<bt, start>>]

\* suggestions calendars: blocks the scheduler wrote, and foreign events
Calendars ==
    { << >>,
      << GcalEvent("e1", 600, 720, str_true, "client_deep_work", <<"T1">>),
         GcalEvent("e2", 720, 780, str_true, "admin_processing", <<"A1">>) >>,
      << GcalEvent("x1", 540, 720, << >>, "", << >>),
         GcalEvent("e1", 630, 720, str_true, "client_deep_work", <<"T1", "T5">>) >>,
      << GcalEvent("x1", 600, 720, << >>, "client_deep_work", << >>) >>,
      << GcalEvent("e1", 600, 720, str_true, "", <<"T1">>) >> }

Cand(id, priority, due_date, remaining_minutes) ==
    [id |-> id, priority |-> priority, due_date |-> due_date,
     remaining_minutes |-> remaining_minutes]

\* what fetch_tasks_grouped returns when the script runs
Grouped ==
    { NoTasks,
      [NoTasks EXCEPT !["client_deep_work"] = << Cand("T1", 1, 0, 120) >>],
      [NoTasks EXCEPT !["client_deep_work"] =
          << Cand("T1", 1, 0, 120), Cand("T2", 1, 0, 60), Cand("T3", 2, 0, 30) >>],
      [NoTasks EXCEPT !["client_deep_work"] =
          << Cand("T6", 1, 2, 20), Cand("T5", 1, 3, 20), Cand("T2", 1, 9, 0),
             Cand("T7", 3, 4, 10), Cand("T4", 0, 1, 200) >>] }

Nows == {645, 700, 710, 730}
MinChunks == {15, 30}
PerTaskCaps == {0, 60, 15}

IdleReflow == [pc |-> "idle", now |-> 0, min_chunk |-> 0, per_task_cap |-> 0,
               dry_run |-> FALSE, grouped |-> NoTasks, before |-> << >>]

(***************************************************************************)
(* Normalisation applied to its own result (contacts_norm.py and the copy  *)
(* in allowlist_client.py).                                                *)
(***************************************************************************)
Alphabet == {"a", "J", "+", "@", " "}

RECURSIVE Strings(_)
Strings(n) ==
    IF n = 0 THEN {<< >>}
    ELSE LET shorter == Strings(n - 1)
         IN  shorter \cup {Append(x, c) : x \in {y \in shorter : Len(y) = n - 1}, c \in Alphabet}

IdleNorm == [pc |-> "idle", x |-> << >>, e1 |-> << >>, d1 |-> << >>,
             e2 |-> << >>, d2 |-> << >>]

\* normalize_email(x) and normalize_domain(x)
normalize_once ==
    /\ norm.pc = "start"
    /\ norm' = [norm EXCEPT !.pc = "once", !.e1 = normalize_email(norm.x),
                             !.d1 = normalize_domain(norm.x)]
    /\ UNCHANGED <<baseVars, cache, sugg, sweep, thread>>

\* the same functions on what they returned
normalize_twice ==
    /\ norm.pc = "once"
    /\ norm' = [norm EXCEPT !.pc = "twice", !.e2 = normalize_email(norm.e1),
                             !.d2 = normalize_domain(norm.d1)]
    /\ UNCHANGED <<baseVars, cache, sugg, sweep, thread>>

(***************************************************************************)
(* The allowlist cache of the triage scripts (core_py/allowlist_client.py). *)
(* The cache file carries its modification time; the clock advances in     *)
(* ticks and CACHE_TTL_SEC is two of them.  The server's answer is the one *)
(* GET /allowlist gives on the committed tables.                           *)
(***************************************************************************)
CACHE_TTL_SEC == 2

IdleCache == [file |-> << >>, now |-> 0, returned |-> << >>, validated |-> -1,
              seen |-> << >>, calls |-> 0]

\* _read_cache: nothing when the file is missing or older than the TTL
read_cache(c) ==
    IF c.file = << >> THEN << >>
    ELSE IF c.now - c.file[1].mtime > CACHE_TTL_SEC THEN << >>
    ELSE <<c.file[1].data>>

\* fetch_allowlist; failed: requests.get or raise_for_status raised
fetch_allowlist(failed) ==
    /\ cache.calls < MaxCalls
    /\ LET cached == read_cache(cache)
           ifNoneMatch == IF cached # << >> THEN cached[1].version ELSE 0
           data == [version |-> version, emails |-> EmailsList(client_emails),
                    domains |-> DomainsList(client_domains)]
       IN  cache' =
             IF failed
             THEN [cache EXCEPT !.calls = @ + 1, !.returned = cached]
             ELSE IF ifNoneMatch # 0 /\ ifNoneMatch = version
             THEN [cache EXCEPT !.calls = @ + 1, !.returned = cached,
                                !.validated = cache.now]
             ELSE [cache EXCEPT !.calls = @ + 1, !.returned = <<data>>,
                                !.file = <<[mtime |-> cache.now, data |-> data]>>,
                                !.validated = cache.now, !.seen = <<data>>]
    /\ UNCHANGED <<baseVars, norm, sugg, sweep, thread>>

\* time passes
cache_tick ==
    /\ cache.now < MaxTime
    /\ cache' = [cache EXCEPT !.now = @ + 1]
    /\ UNCHANGED <<baseVars, norm, sugg, sweep, thread>>

(***************************************************************************)
(* main --apply of the block scheduler: the suggestions calendar is        *)
(* cleared unless --respect-existing-suggestions is given, then every      *)
(* block of the plan is written with CalendarClient.upsert_event.  A time  *)
(* is the day of the window times 1440 plus the minute of the day.         *)
(***************************************************************************)
IdleSugg == [pc |-> "idle", events |-> << >>, plan |-> << >>, k |-> 0, runs |-> 0,
             inserted |-> 0]

\* the blocks of a plan, as plan_week emits them
PlanBlock(day, start, end, bt, ids) ==
    [day |-> day, start |-> start, end |-> end, block_type |-> bt, task_ids |-> ids]

Plans ==
    { << PlanBlock(0, 540, 660, "client_deep_work", <<"C1">>) >>,
      << PlanBlock(0, 540, 660, "client_deep_work", <<"C1">>),
         PlanBlock(0, 660, 720, "admin_processing", <<"A1", "A2">>) >>,
      << PlanBlock(0, 420, 510, "personal", <<"P1">>),
         PlanBlock(1, 540, 600, "admin_processing", <<"A1">>),
         PlanBlock(1, 420, 510, "personal", <<"P1">>) >>,
      << PlanBlock(0, 540, 660, "client_deep_work", <<"C3", "C2", "C1">>),
         PlanBlock(0, 660, 720, "admin_processing", <<"A1", "A2">>),
         PlanBlock(0, 720, 780, "admin_processing", <<"A2">>),
         PlanBlock(0, 420, 510, "personal", <<"P2", "P1">>),
         PlanBlock(0, 750, 810, "personal", <<"P1">>) >> }

\* to_gcal_event, and the key main passes: '{block_type}:{start.isoformat()}'
to_gcal_event(id, ev) ==
    GcalEvent(id, ev.day * 1440 + ev.start, ev.day * 1440 + ev.end, str_true,
              ev.block_type, ev.task_ids)

\* main up to its loop over the plan: clear_suggestions unless the caller
\* asked to respect the existing suggestions
apply_begin(respect_existing_suggestions) ==
    /\ sugg.pc = "idle"
    /\ sugg.runs < MaxCalls
    /\ sugg' = [sugg EXCEPT !.pc = "apply", !.k = 1, !.runs = @ + 1,
                            !.events = IF respect_existing_suggestions THEN @ ELSE << >>]
    /\ UNCHANGED <<baseVars, norm, cache, sweep, thread>>

\* CalendarClient.upsert_event on the next block of the plan: events().insert
upsert_event ==
    /\ sugg.pc = "apply"
    /\ sugg.k <= Len(sugg.plan)
    /\ sugg' = [sugg EXCEPT !.k = @ + 1, !.inserted = @ + 1,
                            !.events = Append(@, to_gcal_event(sugg.inserted + 1,
                                                               sugg.plan[sugg.k]))]
    /\ UNCHANGED <<baseVars, norm, cache, sweep, thread>>

\* "Applied suggestions to calendar."
apply_end ==
    /\ sugg.pc = "apply"
    /\ sugg.k > Len(sugg.plan)
    /\ sugg' = [sugg EXCEPT !.pc = "idle"]
    /\ UNCHANGED <<baseVars, norm, cache, sweep, thread>>
(***************************************************************************)
(* run_once of the Gmail fetcher (core_py/email_fetcher_gmail.py): a sweep *)
(* over the triage labels, page by page.  labels[l][p] is the list of      *)
(* message ids on page p of label l; fault[mid] says what happens when the *)
(* message is handled.                                                     *)
(***************************************************************************)
IdleSweep == [pc |-> "idle", labels |-> << >>, fault |-> << >>, l |-> 1, p |-> 1, m |-> 1,
              seen |-> {}, fetched |-> {}, posted |-> {}, created |-> 0, fail |-> 0]

SweepIds == {"g1", "g2", "g3", "g4"}

\* what messages().list returns for the labels, and which messages fail
SweepLayouts ==
    { << << <<"g1", "g2">>, <<"g3">> >>, << <<"g4">> >> >>,
      << << <<"g1">>, <<"g2">> >>, << <<"g2", "g3">>, <<"g4">> >> >>,
      << << <<"g1", "g2", "g3", "g4">> >> >> }

SweepFaults == [SweepIds -> {"ok", "get_error", "post_error"}]

\* the body of the loop over res["messages"] for one message
run_once_message ==
    /\ sweep.pc = "run"
    /\ sweep.l <= Len(sweep.labels)
    /\ sweep.p <= Len(sweep.labels[sweep.l])
    /\ sweep.m <= Len(sweep.labels[sweep.l][sweep.p])
    /\ LET mid == sweep.labels[sweep.l][sweep.p][sweep.m]
       IN  sweep' =
             IF mid \in sweep.seen THEN [sweep EXCEPT !.m = @ + 1]
             ELSE IF sweep.fault[mid] = "get_error"
             THEN \* messages().get raises: the except clauses of the label
                  [sweep EXCEPT !.seen = @ \cup {mid}, !.fetched = @ \cup {mid},
                                !.fail = @ + 1, !.l = @ + 1, !.p = 1, !.m = 1]
             ELSE IF sweep.fault[mid] = "post_error"
             THEN [sweep EXCEPT !.seen = @ \cup {mid}, !.fetched = @ \cup {mid},
                                !.posted = @ \cup {mid}, !.fail = @ + 1, !.m = @ + 1]
             ELSE [sweep EXCEPT !.seen = @ \cup {mid}, !.fetched = @ \cup {mid},
                                !.posted = @ \cup {mid}, !.created = @ + 1, !.m = @ + 1]
    /\ UNCHANGED <<baseVars, norm, cache, sugg, thread>>

\* page_token = res.get("nextPageToken"): the next page of the label
run_once_next_page ==
    /\ sweep.pc = "run"
    /\ sweep.l <= Len(sweep.labels)
    /\ sweep.p <= Len(sweep.labels[sweep.l])
    /\ sweep.m > Len(sweep.labels[sweep.l][sweep.p])
    /\ sweep' = [sweep EXCEPT !.p = @ + 1, !.m = 1]
    /\ UNCHANGED <<baseVars, norm, cache, sugg, thread>>

\* no page token is left: the next label
run_once_next_label ==
    /\ sweep.pc = "run"
    /\ sweep.l <= Len(sweep.labels)
    /\ sweep.p > Len(sweep.labels[sweep.l])
    /\ sweep' = [sweep EXCEPT !.l = @ + 1, !.p = 1, !.m = 1]
    /\ UNCHANGED <<baseVars, norm, cache, sugg, thread>>

\* the counters are printed and run_once returns
run_once_return ==
    /\ sweep.pc = "run"
    /\ sweep.l > Len(sweep.labels)
    /\ sweep' = [sweep EXCEPT !.pc = "done"]
    /\ UNCHANGED <<baseVars, norm, cache, sugg, thread>>
(***************************************************************************)
(* The legacy triage script (email_triage_clickup_legacy.py) with          *)
(* TRIAGE_THREAD_MODE = per_thread and EMAIL_TRIAGE_MODE =                 *)
(* allowlist-enforce.  tasks is the ClickUp list, a task's id its index;   *)
(* thread_tasks and processed_emails are the script's sqlite tables.       *)
(***************************************************************************)
ThreadIds == {"t1", "t2"}

\* message handlings of the legacy script explored
MaxMessages == 6

LegacyMsg(id, thread_id, date, allowed) ==
    [id |-> id, thread_id |-> thread_id, date |-> date, allowed |-> allowed]

\* the messages Gmail lists under the triage labels
LegacyMessages ==
    { LegacyMsg("x1", "t1", 1, TRUE), LegacyMsg("x2", "t1", 2, TRUE),
      LegacyMsg("x3", "t2", 3, TRUE), LegacyMsg("x4", "t1", 4, FALSE) }

IdleThread == [tasks |-> << >>, thread_tasks |-> [th \in ThreadIds |-> << >>],
               processed_emails |-> << >>, n |-> 0, last |-> << >>]

\* get_thread_task: the task id of the thread's row, or none
get_thread_task(thread_id) ==
    IF thread.thread_tasks[thread_id] = << >> THEN << >>
    ELSE <<thread.thread_tasks[thread_id][1].task_id>>

\* set_thread_task: insert, or on conflict update task_id and last_email_at
set_thread_task(tt, thread_id, task_id, email_dt) ==
    [tt EXCEPT ![thread_id] = <<[task_id |-> task_id, last_email_at |-> email_dt]>>]

\* reopen_task: PUT task/{id} {"status": "to do", "due_date": ..}
reopen_task(tasks, task_id) == [tasks EXCEPT ![task_id].status = "to do"]

\* add_comment_to_task
add_comment_to_task(tasks, task_id) == [tasks EXCEPT ![task_id].comments = @ + 1]

\* cu_post list/{id}/task
create_task(tasks, thread_id) ==
    Append(tasks, [status |-> "to do", comments |-> 0, thread_id |-> thread_id])

\* INSERT INTO processed_emails
mark_processed(pe, m) == Append(pe, [message_id |-> m.id, thread_id |-> m.thread_id])

\* the body of the main loop for one message that is not in processed_emails;
\* post_ok: ClickUp accepts the creation of a task
triage_message(m, post_ok) ==
    /\ thread.n < MaxMessages
    /\ \A k \in 1..Len(thread.processed_emails) :
           thread.processed_emails[k].message_id # m.id
    /\ LET existing == get_thread_task(m.thread_id)
           stamp == [thread EXCEPT !.n = @ + 1, !.last = <<m>>]
           done == [stamp EXCEPT !.processed_emails = mark_processed(@, m)]
           created == [done EXCEPT
                         !.tasks = create_task(@, m.thread_id),
                         !.thread_tasks = set_thread_task(@, m.thread_id,
                                                          Len(thread.tasks) + 1, m.date)]
       IN  thread' =
             IF ~m.allowed THEN done
             ELSE IF existing # << >>
             THEN IF thread.tasks[existing[1]].status = "deleted"
                  THEN \* reopen_task answers 404: the task is created again
                       IF post_ok THEN created ELSE done
                  ELSE [done EXCEPT
                          !.tasks = add_comment_to_task(reopen_task(@, existing[1]),
                                                        existing[1])]
             ELSE IF post_ok THEN created ELSE stamp
    /\ UNCHANGED <<baseVars, norm, cache, sugg, sweep>>

\* the user completes a task in ClickUp
close_task(t) ==
    /\ t \in 1..Len(thread.tasks)
    /\ thread.tasks[t].status = "to do"
    /\ thread' = [thread EXCEPT !.tasks[t].status = "complete"]
    /\ UNCHANGED <<baseVars, norm, cache, sugg, sweep>>

\* the user deletes a task in ClickUp
delete_task(t) ==
    /\ t \in 1..Len(thread.tasks)
    /\ thread.tasks[t].status # "deleted"
    /\ thread' = [thread EXCEPT !.tasks[t].status = "deleted"]
    /\ UNCHANGED <<baseVars, norm, cache, sugg, sweep>>

ClientEmailLists == { << >>, <<Jane_Example_com, jane_vip_example_com>> }
ClientDomainLists == { << >>, << [domain |-> acme_com, wildcard |-> TRUE] >> }
Senders == {Jane_Example_com, jane_vip_example_com, ops_eu_acme_com, ops_acme_co, ops_acme_com}

InitStore ==
    /\ client_emails = {}
    /\ client_domains = {}
    /\ version = 1
    /\ unknown_senders = << >>
    /\ email_tasks = << >>
    /\ task_meta = << >>
    /\ processed_emails = << >>
    /\ workers = [w \in Workers |-> IdleWorker]
    /\ hist = [m \in MessageIds |-> << >>]
    /\ ncalls = 0
    /\ rec = {}
    /\ observed = [p \in Pairs |-> 0]
    /\ decision = [sender |-> << >>, db_error |-> FALSE, emails |-> {}, domains |-> {},
                   allowed |-> FALSE]
    /\ reader = IdleReader
    /\ responses = {}
    /\ nreads = 0

\* the parts of the system the ingestion, contact and planning runs leave idle
InitAux ==
    /\ norm = IdleNorm
    /\ cache = IdleCache
    /\ sugg = IdleSugg
    /\ sweep = IdleSweep
    /\ thread = IdleThread

InitRest ==
    /\ InitStore
    /\ inp = NoInput
    /\ sched = IdleSched
    /\ cal = << >>
    /\ reflow = IdleReflow
    /\ InitAux

\* a store holding one client without addresses or domains
Init ==
    /\ clients = {[id |-> "c1", name |-> "n1", active |-> TRUE]}
    /\ InitRest

\* the store after the migrations: no client, allowlist_meta (1, 1)
InitContacts ==
    /\ clients = {}
    /\ InitRest

Next ==
    \/ \E w \in Workers, m \in Messages, dry_run \in BOOLEAN, has_meta \in BOOLEAN :
          create_task_from_email_dedupe(w, m, dry_run, has_meta)
    \/ \E w \in Workers : create_task_from_email_allowlist(w)
    \/ \E w \in Workers : create_task_from_email_reject(w)
    \/ \E w \in Workers : create_task_from_email_create(w)
    \/ add_client_email("c1", jane_example_com)

Spec == Init /\ [][Next]_vars

\* the allowlist under the admin routes, and the decisions taken on it
NextAllowlist ==
    \/ \E e \in AdminEmails : add_client_email("c1", e)
    \/ \E d \in AdminDomains, wc \in BOOLEAN : add_client_domain("c1", d, wc)
    \/ \E sd \in Senders, db_error \in BOOLEAN : allowlist_decision(sd, db_error)

SpecAllowlist == Init /\ [][NextAllowlist]_vars

\* the contacts routes and the unknown-sender workflow
NextContacts ==
    \/ \E n \in ClientNames, es \in ClientEmailLists,
          ds \in ClientDomainLists, failed \in BOOLEAN :
          create_client(n, es, ds, failed)
    \/ \E cid \in ClientIds,
          es \in {Absent} \cup {Given(l) : l \in ClientEmailLists},
          ds \in {Absent} \cup {Given(l) : l \in ClientDomainLists},
          active \in {Absent}, failed \in BOOLEAN :
          update_client(cid, es, ds, active, failed)
    \/ add_client_email("c1", jane_vip_example_com)
    \/ add_client_domain("c1", acme_com, FALSE)
    \/ \E p \in Pairs : create_unknown_sender_record(p, FALSE)
    \/ \E r \in rec : create_unknown_sender_match(r, FALSE)
    \/ \E uid \in 1..Cardinality(Pairs), action \in {"approve_email", "approve_domain"} :
          resolve_unknown(uid, action, "c1", TRUE, -1)

SpecContacts == InitContacts /\ [][NextContacts]_vars

\* the unknown-sender workflow alone, for one existing client
NextUnknown ==
    \/ \E p \in Pairs, failed \in BOOLEAN : create_unknown_sender_record(p, failed)
    \/ \E r \in rec, failed \in BOOLEAN : create_unknown_sender_match(r, failed)
    \/ \E uid \in 1..Cardinality(Pairs),
          action \in {"ignore", "approve_email", "approve_domain", "reject"},
          client_id \in {"c1", None}, wildcard \in BOOLEAN, fail_at \in -1..3 :
          resolve_unknown(uid, action, client_id, wildcard, fail_at)

SpecUnknown == Init /\ [][NextUnknown]_vars

\* GET /allowlist running while other requests change the allowlist
NextSnapshot ==
    \/ \E ifNoneMatch \in 0..1 : get_allowlist_meta(ifNoneMatch)
    \/ get_allowlist_emails
    \/ get_allowlist_domains
    \/ update_client("c1", Given(<<Jane_Example_com>>),
                     Given(<<[domain |-> acme_com, wildcard |-> TRUE]>>), Absent, FALSE)
    \/ create_unknown_sender_record(CHOOSE p \in Pairs : p.message_id = "m1", FALSE)
    \/ resolve_unknown(1, "approve_email", "c1", FALSE, -1)

SpecSnapshot == Init /\ [][NextSnapshot]_vars

\* plan_week called twice on each input of a bounded set
Inputs ==
    [start_weekday : StartWeekdays, num_days : 1..MaxDays, cfg : Configs,
     fixed : FixedEvents, tasks : TaskSets]

InitPlan ==
    /\ clients = {}
    /\ InitStore
    /\ inp \in Inputs
    /\ sched = plan_week_begin(1, << >>)
    /\ cal = << >>
    /\ reflow = IdleReflow
    /\ InitAux

NextPlan ==
    \/ plan_week_day
    \/ plan_week_work
    \/ plan_week_personal_free
    \/ plan_week_personal
    \/ plan_week_day_end
    \/ plan_week_again

SpecPlan == InitPlan /\ [][NextPlan]_vars

\* two active clients; entries are added, clients soft-deleted, the allowlist
\* read and senders decided
InitDelete ==
    /\ clients = {[id |-> "c1", name |-> "n1", active |-> TRUE],
                  [id |-> "c2", name |-> "n2", active |-> TRUE]}
    /\ InitRest

NextDelete ==
    \/ \E cid \in {"c1", "c2"} : add_client_email(cid, jane_example_com)
    \/ add_client_domain("c1", acme_com, TRUE)
    \/ \E cid \in {"c1", "c2", "c9"} : soft_delete_client(cid)
    \/ get_allowlist_meta(0)
    \/ get_allowlist_emails
    \/ get_allowlist_domains
    \/ \E sd \in {jane_example_com, ops_acme_com} : allowlist_decision(sd, FALSE)

SpecDelete == InitDelete /\ [][NextDelete]_vars

\* a triage script calling fetch_allowlist while time passes and the server's
\* allowlist moves to a new version
NextCache ==
    \/ \E failed \in BOOLEAN : fetch_allowlist(failed)
    \/ cache_tick
    \/ create_unknown_sender_record(CHOOSE p \in Pairs : p.message_id = "m1", FALSE)
    \/ resolve_unknown(1, "approve_email", "c1", FALSE, -1)

SpecCache == Init /\ [][NextCache]_vars

\* one plan applied up to MaxCalls times, with and without the pre-clear
InitApply ==
    /\ clients = {}
    /\ InitStore
    /\ inp = NoInput
    /\ sched = IdleSched
    /\ cal = << >>
    /\ reflow = IdleReflow
    /\ norm = IdleNorm
    /\ cache = IdleCache
    /\ sugg \in {[IdleSugg EXCEPT !.plan = p] : p \in Plans}
    /\ sweep = IdleSweep
    /\ thread = IdleThread

NextApply ==
    \/ \E respect \in BOOLEAN : apply_begin(respect)
    \/ upsert_event
    \/ apply_end

SpecApply == InitApply /\ [][NextApply]_vars

\* one sweep on each layout of labels and pages and each choice of failures
InitSweep ==
    /\ clients = {}
    /\ InitStore
    /\ inp = NoInput
    /\ sched = IdleSched
    /\ cal = << >>
    /\ reflow = IdleReflow
    /\ norm = IdleNorm
    /\ cache = IdleCache
    /\ sugg = IdleSugg
    /\ sweep \in {[IdleSweep EXCEPT !.pc = "run", !.labels = ls, !.fault = f] :
                      ls \in SweepLayouts, f \in SweepFaults}
    /\ thread = IdleThread

NextSweep ==
    \/ run_once_message
    \/ run_once_next_page
    \/ run_once_next_label
    \/ run_once_return

SpecSweep == InitSweep /\ [][NextSweep]_vars

\* the legacy script handling the messages of two threads, in any order,
\* while tasks are completed and deleted in ClickUp
NextThread ==
    \/ \E m \in LegacyMessages, post_ok \in BOOLEAN : triage_message(m, post_ok)
    \/ \E t \in 1..MaxCalls : close_task(t)
    \/ \E t \in 1..MaxCalls : delete_task(t)

SpecThread == Init /\ [][NextThread]_vars

\* every string of the bounded set, normalised twice
InitNorm ==
    /\ clients = {}
    /\ InitStore
    /\ inp = NoInput
    /\ sched = IdleSched
    /\ cal = << >>
    /\ reflow = IdleReflow
    /\ norm \in {[IdleNorm EXCEPT !.pc = "start", !.x = x] : x \in Strings(MaxLen)}
    /\ cache = IdleCache
    /\ sugg = IdleSugg
    /\ sweep = IdleSweep
    /\ thread = IdleThread

NextNorm ==
    \/ normalize_once
    \/ normalize_twice

SpecNorm == InitNorm /\ [][NextNorm]_vars

\* one run of the reflow script on each input of a bounded set
InitReflow ==
    /\ clients = {}
    /\ InitStore
    /\ inp = NoInput
    /\ sched = IdleSched
    /\ cal \in Calendars
    /\ reflow \in [pc : {"start"}, now : Nows, min_chunk : MinChunks,
                    per_task_cap : PerTaskCaps, dry_run : BOOLEAN, grouped : Grouped,
                    before : {<< >>}]
    /\ InitAux

NextReflow == reflow_main

SpecReflow == InitReflow /\ [][NextReflow]_vars


SenderOf(mid) == (CHOOSE m \in Messages : m.id = mid).sender

NumEmailTasks(mid) == Cardinality({i \in 1..Len(email_tasks) : email_tasks[i].id = mid})
NumProcessed(mid) == Cardinality({i \in 1..Len(processed_emails) :
                                     processed_emails[i].message_id = mid})
NumTaskMeta(mid) == Cardinality({i \in 1..Len(task_meta) : task_meta[i].task_id = mid})

\* a call that ran alone, wrote for real, met no database failure, and whose
\* sender passed the endpoint's allowlist check
CleanCall(c) == c.allowed /\ ~c.dry_run /\ ~c.raced /\ ~c.fault

\* C1: sequential non-dry-run calls for one message id with an allowlisted
\* sender: the first returns 'created' with helios_task_id = m, every later
\* one 'duplicate' with that task id, and exactly one EmailTask row and one
\* ProcessedEmail row exist for m.
C1_SequentialIngestIdempotent ==
    \A m \in MessageIds :
        LET h == hist[m]
        IN  (Len(h) >= 1 /\ \A i \in 1..Len(h) : CleanCall(h[i])) =>
                /\ h[1].reason = "created" /\ h[1].helios_task_id = m /\ h[1].status = 200
                /\ \A i \in 2..Len(h) :
                       h[i].reason = "duplicate" /\ h[i].helios_task_id = m /\ h[i].status = 200
                /\ NumEmailTasks(m) = 1
                /\ NumProcessed(m) = 1

C1_Witness ==
    \E m \in MessageIds :
        /\ Len(hist[m]) >= 2
        /\ \A i \in 1..Len(hist[m]) : CleanCall(hist[m][i])
        /\ hist[m][2].reason = "duplicate"

\* C2: of two interleaved requests for one message id that both passed the
\* dedupe check, one returns 'created' and the other 'duplicate' with HTTP
\* 200, never a 500; one EmailTask and one ProcessedEmail row remain.
C2_RaceYieldsDuplicate ==
    \A m \in MessageIds :
        LET h == hist[m]
            racer(c) == c.raced /\ c.allowed /\ ~c.dry_run /\ ~c.fault
        IN  (Len(h) = 2 /\ racer(h[1]) /\ racer(h[2])) =>
                /\ \A i \in 1..2 : h[i].status = 200
                /\ \E i \in 1..2 : h[i].reason = "created" /\ h[3 - i].reason = "duplicate"
                /\ NumEmailTasks(m) = 1
                /\ NumProcessed(m) = 1

\* C3: in every committed state EmailTask m exists iff ProcessedEmail m with
\* status 'created' and helios_task_id m exists, TaskMeta m only with them;
\* a failed create leaves no row of m, and the next attempt returns 'created'.
C3_CreateAtomic ==
    \A m \in MessageIds :
        LET h == hist[m]
            failed(c) == c.status = 500 /\ ~c.raced
        IN  /\ NumEmailTasks(m) <= 1 /\ NumTaskMeta(m) <= 1
            /\ (NumEmailTasks(m) = 1) <=>
                  (\E i \in 1..Len(processed_emails) :
                       /\ processed_emails[i].message_id = m
                       /\ processed_emails[i].status = "created"
                       /\ processed_emails[i].helios_task_id = m)
            /\ NumTaskMeta(m) = 1 => NumEmailTasks(m) = 1
            /\ (Len(h) >= 1 /\ (\A i \in 1..Len(h) : failed(h[i]))
                  /\ \A w \in Workers : workers[w].id # m) =>
                   NumEmailTasks(m) = 0 /\ NumTaskMeta(m) = 0 /\ NumProcessed(m) = 0
            /\ \A i \in 1..Len(h) :
                   ((\A j \in 1..(i-1) : failed(h[j])) /\ CleanCall(h[i])) =>
                       h[i].reason = "created" /\ h[i].helios_task_id = m

C3_Witness ==
    \E m \in MessageIds :
        /\ Len(hist[m]) >= 2
        /\ hist[m][1].status = 500 /\ hist[m][1].fault /\ ~hist[m][1].raced
        /\ CleanCall(hist[m][2]) /\ hist[m][2].reason = "created"
        /\ NumTaskMeta(m) = 1

\* C4: a run over a not-yet-processed message whose sender the allowlist
\* does not allow ends with one UnknownSender row (hits = 1, pending), one
\* ProcessedEmail row 'rejected_allowlist' without task id, no EmailTask,
\* and the reason 'rejected_allowlist'.
C4_RejectionRecorded ==
    \A m \in MessageIds :
        LET h == hist[m]
            rows == {i \in 1..Len(unknown_senders) :
                        /\ unknown_senders[i].email = normalize_email(SenderOf(m))
                        /\ unknown_senders[i].message_id = m}
        IN  (/\ Len(h) = 1
             /\ ~h[1].dry_run /\ ~h[1].raced /\ ~h[1].fault
             /\ ~ProcedureAllows(client_emails, client_domains, SenderOf(m))
             /\ \A w \in Workers : workers[w].id # m) =>
                /\ h[1].reason = "rejected_allowlist"
                /\ NumEmailTasks(m) = 0
                /\ \E i \in 1..Len(processed_emails) :
                       /\ processed_emails[i].message_id = m
                       /\ processed_emails[i].status = "rejected_allowlist"
                       /\ processed_emails[i].helios_task_id = None
                /\ NumProcessed(m) = 1
                /\ Cardinality(rows) = 1
                /\ \A i \in rows : unknown_senders[i].hits = 1
                                   /\ unknown_senders[i].status = "pending"


\* C5: every committed operation that changes the set of ClientEmail or
\* ClientDomain rows leaves allowlist_meta.version strictly greater, and the
\* version never decreases.
C5_MutationBumpsVersion ==
    [][ /\ (client_emails' # client_emails \/ client_domains' # client_domains)
            => version' > version
        /\ version' >= version ]_vars

\* C6: the decision is complete: a sender whose normalised address is a
\* ClientEmail, or whose domain is an exact ClientDomain, or equals or ends
\* with "." + d for a wildcard ClientDomain d, is allowed; with wildcard
\* acme.com, ops@eu.acme.com is allowed and ops@acme.co is denied.
C6_DecisionComplete ==
    (decision.sender # << >> /\ ~decision.db_error) =>
        /\ ProcedureAllows(decision.emails, decision.domains, decision.sender)
              => decision.allowed
        /\ (decision.emails = {} /\ decision.domains # {} /\
            \A r \in decision.domains : r.wildcard /\ r.domain = acme_com) =>
               /\ decision.sender = ops_eu_acme_com => decision.allowed
               /\ decision.sender = ops_acme_co => ~decision.allowed

\* C7: the decision is sound: an allowed sender's normalised address is an
\* exact ClientEmail, or its domain is an exact ClientDomain, or equals or is
\* a subdomain of a wildcard ClientDomain; a database error yields deny.
C7_DecisionSound ==
    /\ decision.allowed
          => ProcedureAllows(decision.emails, decision.domains, decision.sender)
    /\ decision.db_error => ~decision.allowed

Closed(status) == status \in {"resolved", "ignored"}

\* C8: once an unknown-sender row is 'resolved' or 'ignored', no later
\* operation sets its status back to 'pending' or 'matched'.
C8_ResolutionOneWay ==
    [][ \A i \in 1..Len(unknown_senders) :
           Closed(unknown_senders[i].status) =>
               /\ i <= Len(unknown_senders')
               /\ Closed(unknown_senders'[i].status)
               /\ unknown_senders'[i].resolved ]_vars

RowsOfPair(p) ==
    {i \in 1..Len(unknown_senders) :
        /\ unknown_senders[i].email = Lower(Strip(p.email))
        /\ unknown_senders[i].message_id = p.message_id}

\* C9: after k >= 1 observations of a pair (email, message_id) there is
\* exactly one row for the pair and its hits equals k; before the first
\* there is none.
C9_OneRowPerPair ==
    \A p \in Pairs :
        IF observed[p] = 0 THEN RowsOfPair(p) = {}
        ELSE /\ Cardinality(RowsOfPair(p)) = 1
             /\ \A i \in RowsOfPair(p) : unknown_senders[i].hits = observed[p]

C9_Witness ==
    \E p \in Pairs, q \in Pairs :
        /\ p # q
        /\ observed[p] >= 2 /\ observed[q] >= 1
        /\ \A i \in RowsOfPair(p) : unknown_senders[i].hits = 2

\* the allowlist entry an approve of unknown row u creates
ApprovedEntryPresent(u, ce, cd) ==
    \/ [client_id |-> u.client_id, email |-> u.email] \in ce
    \/ \E wc \in BOOLEAN :
          [client_id |-> u.client_id, domain |-> AfterLast(u.email, "@"),
           wildcard |-> wc] \in cd

\* C10: an approve commits its three effects together or not at all: a step
\* that adds an allowlist entry, bumps the version or marks a row 'resolved'
\* does all three at once.
C10_ApproveAtomic ==
    [][ LET newly == {i \in 1..Len(unknown_senders) :
                         /\ unknown_senders'[i].status = "resolved"
                         /\ unknown_senders[i].status # "resolved"}
            touched == \/ client_emails' # client_emails
                       \/ client_domains' # client_domains
                       \/ version' # version
                       \/ newly # {}
        IN  touched =>
               /\ version' = version + 1
               /\ \E i \in 1..Len(unknown_senders') :
                     /\ unknown_senders'[i].resolved
                     /\ unknown_senders'[i].status = "resolved"
                     /\ ApprovedEntryPresent(unknown_senders'[i], client_emails',
                                             client_domains')
               /\ \A i \in newly : ApprovedEntryPresent(unknown_senders'[i], client_emails',
                                                        client_domains') ]_vars

C10_Witness ==
    /\ version > 1
    /\ \E i \in 1..Len(unknown_senders) :
          /\ unknown_senders[i].resolved
          /\ unknown_senders[i].status = "resolved"
          /\ [client_id |-> "c1", email |-> unknown_senders[i].email] \in client_emails

\* C11: a GET /allowlist response carrying version v holds the emails and
\* domains of one instant at which the version was v, also when contact
\* mutations commit during the read, and two responses carrying the same
\* version carry the same emails and domains.
C11_SnapshotConsistent ==
    /\ \A r \in responses :
           ~r.not_modified => r.consistent
    /\ \A r1, r2 \in responses :
           (~r1.not_modified /\ ~r2.not_modified /\ r1.version = r2.version) =>
               (r1.emails = r2.emails /\ r1.domains = r2.domains)

\* C20: ingestion checks dedupe, then the allowlist, then dry-run: a call for
\* a message id without ProcessedEmail row whose sender is not allowed returns
\* 'rejected_allowlist' whether or not dry_run is set, 'dry_run' is returned
\* only to an allowed sender, and a dry run writes no row, so that the next
\* real ingestion of the id returns 'created'.
C20_ChecksInOrder ==
    \A m \in MessageIds :
        LET h == hist[m]
            unprocessed(i) == \A j \in 1..(i - 1) : h[j].reason = "dry_run"
        IN  \A i \in 1..Len(h) :
                (unprocessed(i) /\ ~h[i].raced /\ ~h[i].fault) =>
                    /\ ~h[i].allowed => h[i].reason = "rejected_allowlist"
                    /\ h[i].reason = "dry_run" => h[i].allowed
                    /\ (h[i].allowed /\ ~h[i].dry_run) => h[i].reason = "created"
                    /\ (h[i].reason = "dry_run" /\ i = Len(h)
                          /\ \A w \in Workers : workers[w].id # m) =>
                            NumEmailTasks(m) = 0 /\ NumTaskMeta(m) = 0 /\ NumProcessed(m) = 0

(***************************************************************************)
(* The plan of the block scheduler.                                        *)
(***************************************************************************)
BlockIdx == 1..Len(sched.blocks)

BlocksOf(bt) == {k \in BlockIdx : sched.blocks[k].block_type = bt}

BlocksOn(d, bt) == {k \in BlocksOf(bt) : sched.blocks[k].day = d}

\* C12: over the N days of the window the blocks emitted for a bucket,
\* whatever path placed them, number at most ceil(weekly_weights * N / 7).
C12_WeeklyTargetRespected ==
    \A bt \in Buckets :
        Cardinality(BlocksOf(bt)) <= (inp.cfg.weekly_weights[bt] * inp.num_days + 6) \div 7

\* the free intervals of the core hours of a weekday
CoreFree == subtract_busy(Interval(inp.cfg.core_start, inp.cfg.core_end), inp.fixed)

\* C13: every systems_development block lasts at least
\* min_contiguous_minutes_for_systems and lies in one free interval of the
\* day, so that a shorter free interval holds no such block.
C13_SystemsContiguous ==
    \A k \in BlocksOf("systems_development") :
        LET b == sched.blocks[k]
        IN  /\ b.end - b.start >= inp.cfg.hard.min_contiguous_minutes_for_systems
            /\ \E j \in 1..Len(CoreFree) :
                   /\ CoreFree[j].start <= b.start /\ b.end <= CoreFree[j].end
                   /\ minutes(CoreFree[j]) >= inp.cfg.hard.min_contiguous_minutes_for_systems

C13_Witness ==
    /\ sched.pc = "done"
    /\ inp.cfg.rules["systems_development"].duration_min
           < inp.cfg.hard.min_contiguous_minutes_for_systems
    /\ BlocksOf("systems_development") # {}
    /\ \E j \in 1..Len(CoreFree) : minutes(CoreFree[j]) < 120

\* C14: every personal block starts and ends inside one personal window
\* configured for the weekday of its day, and is placed by the personal
\* phase, never by the work placement.
C14_PersonalInsideWindow ==
    \A k \in BlocksOf("personal") :
        LET b == sched.blocks[k]
            spans == inp.cfg.personal_windows[(inp.start_weekday + b.day) % 7]
        IN  /\ sched.paths[k] = "personal"
            /\ \E j \in 1..Len(spans) : spans[j][1] <= b.start /\ b.end <= spans[j][2]

C14_Witness ==
    /\ sched.pc = "done"
    /\ inp.fixed # << >>
    /\ \E k \in BlocksOf("personal") : sched.blocks[k].day > 0
    /\ \E wd \in 0..6 : inp.cfg.personal_windows[wd] = << >>

\* C15: a day holds at most cap_blocks_per_day[b] blocks of a capped bucket
\* b, and the counter of the day counts the blocks of that day only.
C15_DailyCap ==
    /\ \A bt \in DOMAIN inp.cfg.hard.cap_blocks_per_day, d \in 0..MaxDays :
           Cardinality(BlocksOn(d, bt)) <= inp.cfg.hard.cap_blocks_per_day[bt]
    /\ sched.pc \in {"work", "personal"} =>
           \A bt \in Buckets : sched.cap_today[bt] = Cardinality(BlocksOn(sched.i, bt))

C15_Witness ==
    \E bt \in DOMAIN inp.cfg.hard.cap_blocks_per_day :
        /\ Cardinality(BlocksOn(0, bt)) = inp.cfg.hard.cap_blocks_per_day[bt]
        /\ Cardinality(BlocksOn(1, bt)) = inp.cfg.hard.cap_blocks_per_day[bt]
        /\ sched.demand[bt] > 0

\* C16: a Saturday or Sunday holds personal blocks only, at most the
\* personal daily cap of them.
C16_WeekendPersonalOnly ==
    \A d \in 0..MaxDays :
        (inp.start_weekday + d) % 7 \in {5, 6} =>
            /\ \A k \in BlockIdx :
                   sched.blocks[k].day = d => sched.blocks[k].block_type = "personal"
            /\ Cardinality(BlocksOn(d, "personal"))
                   <= inp.cfg.hard.cap_blocks_per_day["personal"]

C16_Witness ==
    /\ sched.pc = "done"
    /\ sched.demand["client_deep_work"] > 0
    /\ \E d \in 0..MaxDays :
           /\ (inp.start_weekday + d) % 7 \in {5, 6}
           /\ Cardinality(BlocksOn(d, "personal")) = inp.cfg.hard.cap_blocks_per_day["personal"]

\* the task of bucket bt with identifier id, as the caller passed it
TaskOf(bt, id) ==
    LET ts == inp.tasks[bt] IN ts[CHOOSE k \in 1..Len(ts) : ts[k].id = id]

\* priority ascending with an absent priority last, then due ascending where
\* both tasks carry a due date
DrawnBefore(a, b) ==
    LET pa == IF a.priority = 0 THEN 99 ELSE a.priority
        pb == IF b.priority = 0 THEN 99 ELSE b.priority
    IN  \/ pa < pb
        \/ pa = pb /\ (a.due = 0 \/ b.due = 0 \/ a.due <= b.due)

RfHelios ==
    {k \in 1..Len(reflow.before) :
        /\ reflow.before[k].start <= reflow.now /\ reflow.now < reflow.before[k].end
        /\ reflow.before[k].helios_generated = str_true}

RfTaskIds(e) == SelectSeq(e.helios_task_ids, LAMBDA x : x # ",")

RfTasks(e) ==
    IF e.helios_block_type \in Buckets THEN reflow.grouped[e.helios_block_type] ELSE << >>

\* the tasks of e's bucket with time left that are not on e
RfCandidates(e) ==
    {j \in 1..Len(RfTasks(e)) :
        /\ RfTasks(e)[j].remaining_minutes > 0
        /\ \A x \in 1..Len(RfTaskIds(e)) : RfTaskIds(e)[x] # RfTasks(e)[j].id}

RfTask(e, id) == RfTasks(e)[CHOOSE j \in 1..Len(RfTasks(e)) : RfTasks(e)[j].id = id]

RfPriority(t) == IF t.priority = 0 THEN 99 ELSE t.priority

\* what a task may contribute to the new block
RfContribution(t) ==
    IF reflow.per_task_cap = 0 THEN t.remaining_minutes
    ELSE IF t.remaining_minutes <= reflow.per_task_cap THEN t.remaining_minutes
    ELSE reflow.per_task_cap

RECURSIVE RfSum(_, _)
RfSum(e, ids) ==
    IF ids = << >> THEN 0 ELSE RfContribution(RfTask(e, Head(ids))) + RfSum(e, Tail(ids))

\* C18: when a Helios event E contains now, at least min_chunk minutes are
\* left, E's bucket has a candidate and the run is not dry, E is patched to
\* end at now and one event [now, old end] is added with E's bucket, the
\* marker reflow:bucket:now and task ids that are candidates not on E, in
\* (priority, due) order, chosen greedily until the minutes left are filled,
\* a task counting for at most min(remaining minutes, per_task_cap).
C18_ReflowPullsForward ==
    reflow.pc = "done" =>
        \A k \in RfHelios :
            LET E == reflow.before[k]
                left == E.end - reflow.now
                N == cal[Len(cal)]
                ids == RfTaskIds(N)
            IN  (left >= reflow.min_chunk /\ RfCandidates(E) # {} /\ ~reflow.dry_run) =>
                    /\ Len(cal) = Len(reflow.before) + 1
                    /\ cal[k] = [E EXCEPT !.end = reflow.now]
                    /\ \A j \in 1..Len(reflow.before) : j # k => cal[j] = reflow.before[j]
                    /\ N.start = reflow.now /\ N.end = E.end
                    /\ N.helios_block_type = E.helios_block_type
                    /\ N.helios_generated = str_true
                    /\ N.helios_idem = <<"reflow", E.helios_block_type, reflow.now>>
                    /\ ids # << >>
                    /\ \A x \in 1..Len(ids) :
                           \E j \in RfCandidates(E) : RfTasks(E)[j].id = ids[x]
                    /\ \A x, y \in 1..Len(ids) :
                           x < y =>
                               LET a == RfTask(E, ids[x])
                                   b == RfTask(E, ids[y])
                               IN  /\ ids[x] # ids[y]
                                   /\ \/ RfPriority(a) < RfPriority(b)
                                      \/ /\ RfPriority(a) = RfPriority(b)
                                         /\ a.due_date = 0 \/ b.due_date = 0
                                            \/ a.due_date <= b.due_date
                    /\ \A j \in RfCandidates(E), x \in 1..Len(ids) :
                           (\A y \in 1..Len(ids) : ids[y] # RfTasks(E)[j].id) =>
                               RfPriority(RfTasks(E)[j]) >= RfPriority(RfTask(E, ids[x]))
                    /\ RfSum(E, SubSeq(ids, 1, Len(ids) - 1)) < left
                    /\ \/ RfSum(E, ids) >= left
                       \/ \A j \in RfCandidates(E) :
                              \E x \in 1..Len(ids) : ids[x] = RfTasks(E)[j].id

C18_Witness ==
    /\ reflow.pc = "done"
    /\ reflow.now = 645 /\ reflow.per_task_cap = 60 /\ reflow.min_chunk = 15
    /\ Len(cal) = 3
    /\ cal[1].id = "e1" /\ cal[1].start = 600 /\ cal[1].end = 645
    /\ cal[3].start = 645 /\ cal[3].end = 720
    /\ RfTaskIds(cal[3]) = <<"T2", "T3">>

\* C19: the run leaves the calendar as it was when no Helios event contains
\* now, when fewer than min_chunk minutes are left, when the event has no
\* block type, when its bucket has no candidate, or when the run is dry.
C19_ReflowNoOp ==
    reflow.pc = "done" =>
        ((\/ RfHelios = {}
          \/ reflow.dry_run
          \/ \A k \in RfHelios :
                 LET E == reflow.before[k]
                 IN  \/ E.end - reflow.now < reflow.min_chunk
                     \/ E.helios_block_type = ""
                     \/ RfCandidates(E) = {})
            => cal = reflow.before)

C19_Witness ==
    /\ reflow.pc = "done"
    /\ reflow.dry_run
    /\ cal = reflow.before
    /\ \E k \in RfHelios :
           /\ reflow.before[k].end - reflow.now >= reflow.min_chunk
           /\ RfCandidates(reflow.before[k]) # {}

\* C27: every block of a plan has a positive duration and overlaps no fixed
\* event of its day, and every work block lies on a weekday inside the core
\* hours.
C27_BlocksInFreeTime ==
    \A k \in BlockIdx :
        LET b == sched.blocks[k]
        IN  /\ b.end > b.start
            /\ \A f \in 1..Len(inp.fixed) :
                   b.end <= inp.fixed[f].start \/ b.start >= inp.fixed[f].end
            /\ b.block_type # "personal" =>
                   /\ is_weekday(Weekday(b.day))
                   /\ inp.cfg.core_start <= b.start
                   /\ b.end <= inp.cfg.core_end

\* a finished plan with a work block that ends where a fixed event starts
\* and a personal block that starts where a fixed event ends
C27_Witness ==
    /\ sched.pc = "done"
    /\ \E k \in BlockIdx, f \in 1..Len(inp.fixed) :
           /\ sched.blocks[k].block_type # "personal"
           /\ sched.blocks[k].end = inp.fixed[f].start
    /\ \E k \in BlockIdx, f \in 1..Len(inp.fixed) :
           /\ sched.blocks[k].block_type = "personal"
           /\ sched.blocks[k].start = inp.fixed[f].end

\* C28: two distinct blocks of one day never overlap in time.
C28_NoOverlap ==
    \A j, k \in BlockIdx :
        (j # k /\ sched.blocks[j].day = sched.blocks[k].day) =>
            \/ sched.blocks[j].end <= sched.blocks[k].start
            \/ sched.blocks[k].end <= sched.blocks[j].start

\* the minutes of the blocks of bucket bt among the first n blocks
RECURSIVE PlacedMinutes(_, _)
PlacedMinutes(bt, n) ==
    IF n = 0 THEN 0
    ELSE PlacedMinutes(bt, n - 1)
         + (IF sched.blocks[n].block_type = bt THEN minutes(sched.blocks[n]) ELSE 0)

C29_Step ==
    /\ \A bt \in Buckets :
           /\ sched.demand[bt] = SumRemaining(sched.tasks[bt])
           /\ sched'.demand[bt] = SumRemaining(sched'.tasks[bt])
           /\ \A k \in 1..Len(inp.tasks[bt]) :
                  /\ sched'.tasks[bt][k].remaining_minutes >= 0
                  /\ sched'.tasks[bt][k].remaining_minutes <= inp.tasks[bt][k].remaining_minutes
                  /\ sched'.run = sched.run =>
                         sched'.tasks[bt][k].remaining_minutes
                             <= sched.tasks[bt][k].remaining_minutes
    /\ Len(sched'.blocks) = Len(sched.blocks) + 1 =>
           LET b == sched'.blocks[Len(sched'.blocks)]
               ts == sched.tasks[b.block_type]
           IN  /\ b.task_ids # << >>
               /\ \A x, y \in 1..Len(b.task_ids) : x # y => b.task_ids[x] # b.task_ids[y]
               /\ \A x \in 1..Len(b.task_ids) :
                      \E k \in 1..Len(ts) :
                          ts[k].id = b.task_ids[x] /\ ts[k].remaining_minutes > 0

\* C29: between block placements the demand counter of every bucket equals
\* the sum of max(0, remaining_minutes) over its tasks, no task's remaining
\* minutes go below zero or up, and every block built lists at least one task
\* id, none twice, each of a task that had remaining minutes when the block
\* was built.
C29_DemandConserved == [][C29_Step]_vars

\* a finished plan in which the blocks of a bucket are longer than the demand
\* the bucket had, and the counter stopped at zero
C29_Witness ==
    /\ sched.pc = "done"
    /\ \E bt \in Buckets :
           /\ compute_demand(inp.tasks)[bt] > 0
           /\ sched.demand[bt] = 0
           /\ PlacedMinutes(bt, Len(sched.blocks)) > compute_demand(inp.tasks)[bt]
           /\ \E k \in BlocksOf(bt) : Len(sched.blocks[k].task_ids) > 1

C30_Step ==
    (sched.pc \in {"work", "personal"} /\ sched.queue # << >>) =>
        \/ /\ sched'.blocks = sched.blocks
           /\ sched'.queue = Tail(sched.queue)
        \/ /\ Len(sched'.blocks) = Len(sched.blocks) + 1
           /\ minutes(sched'.blocks[Len(sched'.blocks)]) > 0
           /\ \/ sched'.queue = Tail(sched.queue)
              \/ /\ sched'.queue # << >>
                 /\ Tail(sched'.queue) = Tail(sched.queue)
                 /\ Head(sched'.queue).end = Head(sched.queue).end
                 /\ Head(sched'.queue).start > Head(sched.queue).start
                 /\ Head(sched'.queue).start <= Head(sched.queue).end

\* C30: every turn of the work placement and of the personal placement
\* either emits a block and strictly shortens the cursor, or leaves the
\* cursor's interval; none keeps the cursor as it is and goes on.
C30_Terminates == [][C30_Step]_vars

\* a finished plan under durations of 0: admin_processing kept its demand
\* and got no block, personal blocks were placed
C30_Witness ==
    /\ sched.pc = "done"
    /\ sched.run = 2
    /\ inp.cfg.rules["admin_processing"].duration_max = 0
    /\ sched.demand["admin_processing"] > 0
    /\ BlocksOf("admin_processing") = {}
    /\ BlocksOf("personal") # {}

\* C24: normalising an address or a domain that is already normalised
\* changes nothing.
C24_NormalizeIdempotent ==
    norm.pc = "twice" => (norm.e2 = norm.e1 /\ norm.d2 = norm.d1)

\* an address with leading whitespace, a capital and two '+' signs
C24_Witness ==
    /\ norm.pc = "twice"
    /\ Len(norm.x) = MaxLen
    /\ norm.x[1] = " "
    /\ Count(norm.x, "+") = 2
    /\ Contains(norm.x, "J")
    /\ EMAIL_RE_match(Lower(Strip(norm.x)))
    /\ norm.e1 # norm.x
    /\ norm.e1 # Lower(Strip(norm.x))

ActiveClient(cid) == \E c \in clients : c.id = cid /\ c.active

C23_Step ==
    /\ decision' # decision =>
           (decision'.allowed =>
               is_sender_allowlisted({r \in client_emails : ActiveClient(r.client_id)},
                                     {r \in client_domains : ActiveClient(r.client_id)},
                                     decision'.sender, FALSE))
    /\ (reader.pc = "emails" /\ reader'.pc = "domains") =>
           \A x \in reader'.emails :
               \E r \in client_emails : r.email = x[1] /\ ActiveClient(r.client_id)
    /\ (reader.pc = "domains" /\ reader'.pc = "idle") =>
           \A x \in DomainsList(client_domains) :
               \E r \in client_domains :
                   /\ r.domain = x[1].domain /\ r.wildcard = x[1].wildcard
                   /\ ActiveClient(r.client_id)

\* C23: an address or a domain that belongs to soft-deleted clients only is
\* neither returned by GET /allowlist nor accepted at ingestion.
C23_ActiveClientsOnly == [][C23_Step]_vars

\* C22: a cache entry the server has validated (a fresh snapshot or a
\* not_modified answer) is served from the cache for a full TTL after that
\* validation, and what fetch_allowlist returns is the snapshot of the latest
\* version the client has received.
C22_CacheContract ==
    /\ (cache.file # << >> /\ cache.validated >= 0
           /\ cache.now - cache.validated <= CACHE_TTL_SEC)
          => read_cache(cache) # << >>
    /\ cache.returned # << >> => cache.returned = cache.seen

\* C25: the suggestions calendar never holds two events with the same
\* idempotency key helios_idem, however often a plan is applied.
C25_OneEventPerKey ==
    \A i, j \in 1..Len(sugg.events) :
        i # j => sugg.events[i].helios_idem # sugg.events[j].helios_idem

\* the message ids listed under the labels of the sweep
SweepListed ==
    {sweep.labels[l][p][m] : <<l, p, m>> \in
        {x \in (1..Len(sweep.labels)) \X (1..2) \X (1..4) :
            /\ x[2] <= Len(sweep.labels[x[1]])
            /\ x[3] <= Len(sweep.labels[x[1]][x[2]])}}

\* C21: when the sweep returns, every listed message was fetched, every
\* message whose fetch succeeded was posted, and the failures counted are
\* those of the messages that failed.
C21_FailureIsPerMessage ==
    sweep.pc = "done" =>
        /\ sweep.fetched = SweepListed
        /\ sweep.posted = {mid \in SweepListed : sweep.fault[mid] # "get_error"}
        /\ sweep.fail = Cardinality({mid \in SweepListed : sweep.fault[mid] # "ok"})

C26_Step ==
    thread'.n = thread.n + 1 =>
        LET m == thread'.last[1]
            existing == get_thread_task(m.thread_id)
        IN  /\ (m.allowed /\ existing # << >>
                  /\ thread.tasks[existing[1]].status # "deleted") =>
                   /\ Len(thread'.tasks) = Len(thread.tasks)
                   /\ thread'.tasks[existing[1]].status = "to do"
                   /\ thread'.tasks[existing[1]].comments
                          = thread.tasks[existing[1]].comments + 1
                   /\ thread'.thread_tasks[m.thread_id][1].task_id = existing[1]
                   /\ thread'.thread_tasks[m.thread_id][1].last_email_at = m.date
                   /\ Cardinality({k \in 1..Len(thread'.processed_emails) :
                          thread'.processed_emails[k].message_id = m.id}) = 1
            /\ \A th \in ThreadIds :
                   Cardinality({t \in 1..Len(thread'.tasks) :
                       /\ thread'.tasks[t].thread_id = th
                       /\ thread'.tasks[t].status # "deleted"}) <= 1

\* C26: an allowed message on a thread whose mapped task still exists
\* creates no task; the task is reopened and commented, the thread's row
\* keeps the task and takes the email's time as last_email_at, the message
\* is recorded as processed once, and a thread never has two live tasks.
C26_ThreadReusesTask == [][C26_Step]_vars

====
